---------------------------- MODULE Spec2Model ----------------------------
(***************************************************************************)
(* Longest-prefix-match forwarding table of src/src/c/route_lookup.c:      *)
(* a binary trie over address bits (insert_route, lookup_route_optimized,  *)
(* delete_route) with an attached lookup cache (lookup_with_cache), their  *)
(* constructors (create_trie_node, create_route_cache) and the teardown    *)
(* of the trie (free_trie_node).  The operations are modelled as atomic    *)
(* calls and, where callers run side by side, lookup_route_optimized,      *)
(* insert_route, delete_route and lookup_with_cache also statement by      *)
(* statement.                                                              *)
(*                                                                         *)
(* Trie nodes live in a heap: a function from allocated node addresses to  *)
(* node structs.  malloc hands out the lowest unallocated address and      *)
(* returns NULL when the pool is exhausted or when the environment refuses *)
(* the allocation; free removes the address from the heap.                 *)
(***************************************************************************)
EXTENDS Integers, Sequences, FiniteSets, TLC

\* ------------------------------------------------------------------ bounds

\* Width of an address in bits (the program uses uint32_t: 32).
AddrBits == 2

\* Number of node addresses malloc can hand out, the root included.
MaxNodes == 3

\* The capacity the caller gives create_route_cache.
CacheCapacity == 2

\* The last reading of the clock (time(NULL)) the model lets pass.
MaxTime == 2

\* ------------------------------------------------------------- basic values

NULL == 0

Root == 1

NodeIds == 1..MaxNodes

Addrs == 0..(2^AddrBits - 1)

PrefixLens == 0..AddrBits

\* The NULL route pointer.
NoRoute == [next_hop |-> 0, prefix |-> 0, prefix_len |-> 0]

\* The low AddrBits - prefix_len bits of a prefix (its host bits).
HostBits(prefix, prefix_len) ==
    prefix % (2^(AddrBits - prefix_len))

\* The route_entry_t values callers hand to insert_route; a route pointer is
\* identified with the struct it points to.  For every prefix_len there is
\* a route with next_hop 1 for every choice of the significant bits, spelled
\* with the host bits clear, and one route with next_hop 2 whose prefix is
\* all ones (so its host bits are set): it shares its (prefix, length) with
\* the next_hop 1 route of the prefix of prefix_len ones.
Routes ==
    {r \in [next_hop : {1, 2}, prefix : Addrs, prefix_len : PrefixLens] :
        IF r.next_hop = 1
        THEN HostBits(r.prefix, r.prefix_len) = 0
        ELSE r.prefix = 2^AddrBits - 1}

\* How many allocations the environment grants one insert_route call before
\* malloc starts returning NULL: none, one, or as many as the call can need.
AvailChoices == {0, 1, AddrBits}

\* The routes, addresses and ttl values used where the cache is exercised:
\* the two routes of the one-bit prefix "1", an address outside it and two
\* addresses inside it.
CacheRoutes ==
    {r \in Routes : r.prefix_len = 1 /\ r.prefix \div (2^(AddrBits - 1)) = 1}

CacheAddrs == {0, 2^(AddrBits - 1), 2^AddrBits - 1}

Ttls == {0, 1, 2}

\* The callers that run lookup_route_optimized statement by statement, and
\* the routes installed where they do: next_hop 1 of the prefixes "1", "10"
\* and "11".
ReaderIds == {1, 2}

ReaderRoutes ==
    {r \in Routes : /\ r.next_hop = 1
                    /\ r.prefix_len \in {1, 2}
                    /\ r.prefix \div (2^(AddrBits - 1)) = 1}

VARIABLES
    nodes,      \* the heap of trie_node_t: allocated address -> struct
    cache,      \* the route_cache_t
    now,        \* the clock: what time(NULL) returns
    readers,    \* per caller, the frame of its lookup_route_optimized call
    writer,     \* the frame of the insert_route call run step by step
    installed,  \* the routes a caller has inserted and not deleted since
    last        \* the last call made: its name and what it returned

vars == <<nodes, cache, now, readers, writer, installed, last>>

\* ----------------------------------------------------------------- the heap

\* A trie_node_t as create_trie_node leaves it.
NewNode ==
    [children |-> [b \in {0, 1} |-> NULL],
     prefix |-> NULL,
     prefix_len |-> 0,
     data |-> NoRoute,
     is_leaf |-> 0]

\* What a read of memory that was never written may give: Garbage stands
\* for an arbitrary int or pointer, GarbageRoute for an arbitrary route
\* pointer.
Garbage == -1

GarbageRoute == [next_hop |-> -1, prefix |-> -1, prefix_len |-> -1]

\* A trie_node_t as malloc returns it: no field written yet.
UninitNode ==
    [children |-> [b \in {0, 1} |-> Garbage],
     prefix |-> Garbage,
     prefix_len |-> Garbage,
     data |-> GarbageRoute,
     is_leaf |-> Garbage]

\* The values a read of a pointer, of an int used as a truth value, and of
\* a route pointer can give: what was written, or anything when nothing was.
ReadPtr(v) ==
    IF v = Garbage THEN {NULL, Garbage} ELSE {v}

ReadInt(v) ==
    IF v = Garbage THEN {0, 1} ELSE {v}

ReadRoute(v) ==
    IF v = GarbageRoute THEN {NoRoute, GarbageRoute} ELSE {v}

\* malloc(sizeof(trie_node_t)): NULL when the environment grants no more
\* allocations (avail = 0) or the pool is exhausted.
malloc(h, avail) ==
    LET free == NodeIds \ DOMAIN h
    IN  IF avail = 0 \/ free = {}
        THEN NULL
        ELSE CHOOSE n \in free : \A m \in free : n <= m

\* free(node)
free(h, node) ==
    [m \in DOMAIN h \ {node} |-> h[m]]

\* create_trie_node: the heap after the call and the pointer returned.
create_trie_node(h, avail) ==
    LET node == malloc(h, avail)
    IN  IF node = NULL
        THEN [heap |-> h, node |-> NULL]
        ELSE [heap |-> [m \in DOMAIN h \cup {node} |->
                            IF m = node THEN NewNode ELSE h[m]],
              node |-> node]

\* ------------------------------------------------------------ ip_to_binary

\* (ip >> (31 - i)) & 1, for bit position i counted from the most significant.
BitAt(ip, i) ==
    (ip \div (2^(AddrBits - 1 - i))) % 2

\* The cells of the buffer char binary[33] of insert_route and delete_route,
\* indexed from 0, and the cells of delete_route's trie_node_t **path[32].
BinaryCells == AddrBits + 1

PathCells == AddrBits

\* BinaryStores with the terminator stored one cell further on, at
\* binary[prefix_len + 1].
BinaryStoresPast(ip, prefix_len) ==
    [k \in 1..(AddrBits + 1) |->
        IF k <= AddrBits
        THEN <<k - 1, IF BitAt(ip, k - 1) = 1 THEN "1" ELSE "0">>
        ELSE <<prefix_len + 1, "NUL">>]

\* The stores of ip_to_binary(ip, prefix_len, binary) in program order,
\* each as <<index, char>>: binary[i] for i = 0..31, then
\* binary[prefix_len] = '\0'.
BinaryStores(ip, prefix_len) ==
    [k \in 1..(AddrBits + 1) |->
        IF k <= AddrBits
        THEN <<k - 1, IF BitAt(ip, k - 1) = 1 THEN "1" ELSE "0">>
        ELSE <<prefix_len, "NUL">>]

\* ip_to_binary spelling the address from its low bit upwards.
ip_to_binary_low(ip, prefix_len) ==
    [i \in 1..(AddrBits + 1) |->
        IF i = prefix_len + 1 THEN "NUL"
        ELSE IF i <= AddrBits
             THEN (IF (ip \div (2^(i - 1))) % 2 = 1 THEN "1" ELSE "0")
             ELSE "uninit"]

\* ip_to_binary: the char buffer binary[0..AddrBits] (here indexed from 1)
\* after the call: '0'/'1' for every address bit, then the terminator
\* written at binary[prefix_len]; the last cell is never written unless
\* prefix_len = AddrBits.
ip_to_binary(ip, prefix_len) ==
    [i \in 1..(AddrBits + 1) |->
        IF i = prefix_len + 1 THEN "NUL"
        ELSE IF i <= AddrBits
             THEN (IF BitAt(ip, i - 1) = 1 THEN "1" ELSE "0")
             ELSE "uninit"]

\* binary[i] - '0'
CharToBit(c) ==
    CASE c = "0" -> 0
      [] c = "1" -> 1
      [] OTHER -> -48

\* ------------------------------------------------------------ insert_route

RECURSIVE InsertLoopBreak(_, _, _, _, _, _)
\* InsertLoop with the failed allocation leaving the loop (break) instead
\* of the function (return -1): the route is attached where the walk stopped.
InsertLoopBreak(h, current, binary, i, route, avail) ==
    IF i < route.prefix_len
    THEN LET bit == CharToBit(binary[i + 1])
         IN  IF h[current].children[bit] = NULL
             THEN LET made == create_trie_node(h, avail)
                  IN  IF made.node = NULL
                      THEN [heap |-> [h EXCEPT ![current].data = route,
                                               ![current].is_leaf = 1],
                            ret |-> 0, descents |-> i]
                      ELSE InsertLoopBreak(
                               [made.heap EXCEPT
                                    ![current].children[bit] = made.node],
                               made.node, binary, i + 1, route, avail - 1)
             ELSE InsertLoopBreak(h, h[current].children[bit], binary, i + 1,
                                  route, avail)
    ELSE [heap |-> [h EXCEPT ![current].data = route,
                             ![current].is_leaf = 1],
          ret |-> 0, descents |-> i]

RECURSIVE InsertLoopOtherSlot(_, _, _, _, _, _)
\* InsertLoop linking a node it creates into the other child slot,
\* children[1 - bit].
InsertLoopOtherSlot(h, current, binary, i, route, avail) ==
    IF i < route.prefix_len
    THEN LET bit == CharToBit(binary[i + 1])
         IN  IF h[current].children[bit] = NULL
             THEN LET made == create_trie_node(h, avail)
                  IN  IF made.node = NULL
                      THEN [heap |-> h, ret |-> -1, descents |-> i]
                      ELSE InsertLoopOtherSlot(
                               [made.heap EXCEPT
                                    ![current].children[1 - bit] = made.node],
                               made.node, binary, i + 1, route, avail - 1)
             ELSE InsertLoopOtherSlot(h, h[current].children[bit], binary,
                                      i + 1, route, avail)
    ELSE [heap |-> [h EXCEPT ![current].data = route,
                             ![current].is_leaf = 1],
          ret |-> 0, descents |-> i]

RECURSIVE InsertLoopUnmarkPath(_, _, _, _, _, _)
\* InsertLoop clearing the leaf flag of every node it descends into.
InsertLoopUnmarkPath(h, current, binary, i, route, avail) ==
    IF i < route.prefix_len
    THEN LET bit == CharToBit(binary[i + 1])
         IN  IF h[current].children[bit] = NULL
             THEN LET made == create_trie_node(h, avail)
                  IN  IF made.node = NULL
                      THEN [heap |-> h, ret |-> -1, descents |-> i]
                      ELSE InsertLoopUnmarkPath(
                               [made.heap EXCEPT
                                    ![current].children[bit] = made.node],
                               made.node, binary, i + 1, route, avail - 1)
             ELSE InsertLoopUnmarkPath(
                      [h EXCEPT ![h[current].children[bit]].is_leaf = 0],
                      h[current].children[bit], binary, i + 1, route, avail)
    ELSE [heap |-> [h EXCEPT ![current].data = route,
                             ![current].is_leaf = 1],
          ret |-> 0, descents |-> i]

RECURSIVE InsertLoopRelabel(_, _, _, _, _, _)
\* InsertLoop storing the record pointer in every existing node it descends
\* into as well.
InsertLoopRelabel(h, current, binary, i, route, avail) ==
    IF i < route.prefix_len
    THEN LET bit == CharToBit(binary[i + 1])
         IN  IF h[current].children[bit] = NULL
             THEN LET made == create_trie_node(h, avail)
                  IN  IF made.node = NULL
                      THEN [heap |-> h, ret |-> -1, descents |-> i]
                      ELSE InsertLoopRelabel(
                               [made.heap EXCEPT
                                    ![current].children[bit] = made.node],
                               made.node, binary, i + 1, route, avail - 1)
             ELSE InsertLoopRelabel(
                      [h EXCEPT ![h[current].children[bit]].data = route],
                      h[current].children[bit], binary, i + 1, route, avail)
    ELSE [heap |-> [h EXCEPT ![current].data = route,
                             ![current].is_leaf = 1],
          ret |-> 0, descents |-> i]

RECURSIVE InsertLoop(_, _, _, _, _, _)
\* The for loop of insert_route from index i on, then the attach; descents
\* counts the executions of current = current->children[bit].
InsertLoop(h, current, binary, i, route, avail) ==
    IF i < route.prefix_len
    THEN LET bit == CharToBit(binary[i + 1])
         IN  IF h[current].children[bit] = NULL
             THEN LET made == create_trie_node(h, avail)
                  IN  IF made.node = NULL
                      THEN [heap |-> h, ret |-> -1, descents |-> i]
                      ELSE InsertLoop(
                               [made.heap EXCEPT
                                    ![current].children[bit] = made.node],
                               made.node, binary, i + 1, route, avail - 1)
             ELSE InsertLoop(h, h[current].children[bit], binary, i + 1,
                             route, avail)
    ELSE [heap |-> [h EXCEPT ![current].data = route,
                             ![current].is_leaf = 1],
          ret |-> 0, descents |-> i]

\* insert_route(root, route) on heap h, with avail allocations obtainable.
\* insert_route storing the record pointer in the root as well.
insert_route_and_root(h, root, route, avail) ==
    LET r == InsertLoop(h, root, ip_to_binary(route.prefix, route.prefix_len),
                        0, route, avail)
    IN  IF r.ret = 0
        THEN [r EXCEPT !.heap[root].data = route]
        ELSE r

insert_route(h, root, route, avail) ==
    InsertLoop(h, root, ip_to_binary(route.prefix, route.prefix_len), 0,
               route, avail)

\* -------------------------------------------------- lookup_route_optimized

RECURSIVE LookupLoopFirst(_, _, _, _, _)
\* LookupLoop keeping the first leaf it meets instead of the last.
LookupLoopFirst(h, current, ip, i, best_match) ==
    IF i < AddrBits
    THEN LET bit == BitAt(ip, i)
         IN  IF h[current].children[bit] = NULL
             THEN [best_match |-> best_match, descents |-> i]
             ELSE LET next == h[current].children[bit]
                  IN  LookupLoopFirst(h, next, ip, i + 1,
                                      IF h[next].is_leaf # 0
                                         /\ best_match = NoRoute
                                      THEN h[next].data
                                      ELSE best_match)
    ELSE [best_match |-> best_match, descents |-> i]

RECURSIVE LookupLoop(_, _, _, _, _)
\* The for loop of lookup_route_optimized from index i on: the best match
\* when the loop is left, and the number of executions of
\* current = current->children[bit].
LookupLoop(h, current, ip, i, best_match) ==
    IF i < AddrBits
    THEN LET bit == BitAt(ip, i)
         IN  IF h[current].children[bit] = NULL
             THEN [best_match |-> best_match, descents |-> i]
             ELSE LET next == h[current].children[bit]
                  IN  LookupLoop(h, next, ip, i + 1,
                                 IF h[next].is_leaf # 0
                                 THEN h[next].data
                                 ELSE best_match)
    ELSE [best_match |-> best_match, descents |-> i]

lookup_route_optimized(h, root, ip) ==
    LookupLoop(h, root, ip, 0, NoRoute).best_match

\* ------------------------------------------------------------ delete_route

RECURSIVE DeleteWalk(_, _, _, _, _, _)
\* The descent of delete_route from index i on: path collects the child
\* slots passed (a slot &node->children[bit] is <<node, bit>>).
DeleteWalk(h, current, binary, i, prefix_len, path) ==
    IF i < prefix_len
    THEN LET bit == CharToBit(binary[i + 1])
         IN  IF h[current].children[bit] = NULL
             THEN [found |-> FALSE, current |-> current, path |-> path]
             ELSE DeleteWalk(h, h[current].children[bit], binary, i + 1,
                             prefix_len, Append(path, <<current, bit>>))
    ELSE [found |-> TRUE, current |-> current, path |-> path]

RECURSIVE CleanupLoopNoLeafCheck(_, _, _)
\* CleanupLoop without the !node->is_leaf test: a childless node is freed
\* even when a route is anchored at it.
CleanupLoopNoLeafCheck(h, path, i) ==
    IF i >= 0
    THEN LET slot == path[i + 1]
             node == h[slot[1]].children[slot[2]]
         IN  IF h[node].children[0] = NULL /\ h[node].children[1] = NULL
             THEN CleanupLoopNoLeafCheck(
                      [free(h, node) EXCEPT
                           ![slot[1]].children[slot[2]] = NULL],
                      path, i - 1)
             ELSE h
    ELSE h

\* CleanupLoop that looks at the terminal node only: it is freed when it is
\* non-leaf and childless, and no node above it is looked at.
CleanupTerminalOnly(h, path, i) ==
    IF i >= 0
    THEN LET slot == path[i + 1]
             node == h[slot[1]].children[slot[2]]
         IN  IF h[node].is_leaf = 0
                /\ h[node].children[0] = NULL
                /\ h[node].children[1] = NULL
             THEN [free(h, node) EXCEPT ![slot[1]].children[slot[2]] = NULL]
             ELSE h
    ELSE h

RECURSIVE CleanupLoopDangling(_, _, _)
\* CleanupLoop freeing the node without emptying the slot that refers to
\* it.
CleanupLoopDangling(h, path, i) ==
    IF i >= 0
    THEN LET slot == path[i + 1]
             node == h[slot[1]].children[slot[2]]
         IN  IF h[node].is_leaf = 0
                /\ h[node].children[0] = NULL
                /\ h[node].children[1] = NULL
             THEN CleanupLoopDangling(free(h, node), path, i - 1)
             ELSE h
    ELSE h

RECURSIVE CleanupLoopWithRoot(_, _, _)
\* CleanupLoop going on to the root: once every node of the path is freed,
\* a root left non-leaf and childless is freed too.
CleanupLoopWithRoot(h, path, i) ==
    IF i >= 0
    THEN LET slot == path[i + 1]
             node == h[slot[1]].children[slot[2]]
         IN  IF h[node].is_leaf = 0
                /\ h[node].children[0] = NULL
                /\ h[node].children[1] = NULL
             THEN CleanupLoopWithRoot(
                      [free(h, node) EXCEPT
                           ![slot[1]].children[slot[2]] = NULL],
                      path, i - 1)
             ELSE h
    ELSE IF h[Root].is_leaf = 0
            /\ h[Root].children[0] = NULL
            /\ h[Root].children[1] = NULL
    THEN free(h, Root)
    ELSE h

RECURSIVE CleanupLoop(_, _, _)
\* The clean-up loop of delete_route from index i (counted from 0) down.
CleanupLoop(h, path, i) ==
    IF i >= 0
    THEN LET slot == path[i + 1]
             node == h[slot[1]].children[slot[2]]
         IN  IF h[node].is_leaf = 0
                /\ h[node].children[0] = NULL
                /\ h[node].children[1] = NULL
             THEN CleanupLoop(
                      [free(h, node) EXCEPT
                           ![slot[1]].children[slot[2]] = NULL],
                      path, i - 1)
             ELSE h
    ELSE h

\* delete_route without the test of the terminal node's is_leaf.
delete_route_no_leaf_test(h, root, prefix, prefix_len) ==
    LET walk == DeleteWalk(h, root, ip_to_binary(prefix, prefix_len), 0,
                           prefix_len, <<>>)
    IN  IF ~walk.found
        THEN [heap |-> h, ret |-> -1, descents |-> Len(walk.path)]
        ELSE [heap |-> CleanupLoop(
                           [h EXCEPT ![walk.current].is_leaf = 0,
                                     ![walk.current].data = NoRoute],
                           walk.path, Len(walk.path) - 1),
              ret |-> 0, descents |-> Len(walk.path)]

\* delete_route without the clean-up loop: the route is unmarked and every
\* node stays.
delete_route_no_cleanup(h, root, prefix, prefix_len) ==
    LET walk == DeleteWalk(h, root, ip_to_binary(prefix, prefix_len), 0,
                           prefix_len, <<>>)
    IN  IF ~walk.found
        THEN [heap |-> h, ret |-> -1, descents |-> Len(walk.path)]
        ELSE IF h[walk.current].is_leaf = 0
        THEN [heap |-> h, ret |-> -1, descents |-> Len(walk.path)]
        ELSE [heap |-> [h EXCEPT ![walk.current].is_leaf = 0,
                                 ![walk.current].data = NoRoute],
              ret |-> 0, descents |-> Len(walk.path)]

\* delete_route without current->data = NULL: the leaf flag is cleared and
\* the record stays attached.
delete_route_keep_data(h, root, prefix, prefix_len) ==
    LET walk == DeleteWalk(h, root, ip_to_binary(prefix, prefix_len), 0,
                           prefix_len, <<>>)
    IN  IF ~walk.found
        THEN [heap |-> h, ret |-> -1, descents |-> Len(walk.path)]
        ELSE IF h[walk.current].is_leaf = 0
        THEN [heap |-> h, ret |-> -1, descents |-> Len(walk.path)]
        ELSE [heap |-> CleanupLoop(
                           [h EXCEPT ![walk.current].is_leaf = 0],
                           walk.path, Len(walk.path) - 1),
              ret |-> 0, descents |-> Len(walk.path)]

delete_route(h, root, prefix, prefix_len) ==
    LET walk == DeleteWalk(h, root, ip_to_binary(prefix, prefix_len), 0,
                           prefix_len, <<>>)
    IN  IF ~walk.found
        THEN [heap |-> h, ret |-> -1, descents |-> Len(walk.path)]
        ELSE IF h[walk.current].is_leaf = 0
        THEN [heap |-> h, ret |-> -1, descents |-> Len(walk.path)]
        ELSE [heap |-> CleanupLoop(
                           [h EXCEPT ![walk.current].is_leaf = 0,
                                     ![walk.current].data = NoRoute],
                           walk.path, Len(walk.path) - 1),
              ret |-> 0, descents |-> Len(walk.path)]

\* ------------------------------------------------------- lookup_with_cache

\* A cell of the entries array that was never written.
UninitEntry == [ip |-> -1, route |-> NoRoute, timestamp |-> -1]

\* The NULL route_cache_t pointer.
NoCache == [entries |-> <<>>, size |-> 0, capacity |-> 0]

\* create_route_cache(capacity) when malloc grants avail allocations: the
\* cache returned and whether the call wrote through a NULL pointer.  The
\* result of neither malloc is tested: with cache NULL the store to
\* cache->entries faults; with only the array refused the cache is
\* returned with entries NULL (an array of no cells).
create_route_cache(capacity, avail) ==
    IF avail = 0
    THEN [cache |-> NoCache, fault |-> TRUE]
    ELSE [cache |-> [entries |-> IF avail = 1
                                 THEN <<>>
                                 ELSE [i \in 0..(capacity - 1) |->
                                          UninitEntry],
                     size |-> 0,
                     capacity |-> capacity],
          fault |-> FALSE]

RECURSIVE CacheScanLe(_, _, _, _, _)
\* CacheScan with the age compared by <= instead of <.
CacheScanLe(c, ip, cache_ttl, t, i) ==
    IF i < c.size
    THEN IF c.entries[i].ip = ip /\ (t - c.entries[i].timestamp) <= cache_ttl
         THEN i
         ELSE CacheScanLe(c, ip, cache_ttl, t, i + 1)
    ELSE -1

RECURSIVE CacheScan(_, _, _, _, _)
\* The scan loop of lookup_with_cache from index i on: the index of the
\* first entry for ip younger than cache_ttl, or -1 when the scan runs out.
CacheScan(c, ip, cache_ttl, t, i) ==
    IF i < c.size
    THEN IF c.entries[i].ip = ip /\ (t - c.entries[i].timestamp) < cache_ttl
         THEN i
         ELSE CacheScan(c, ip, cache_ttl, t, i + 1)
    ELSE -1

\* lookup_with_cache writing over entries[0] when the cache is full instead
\* of leaving the cache alone.
lookup_with_cache_evict(h, root, c, ip, cache_ttl, t) ==
    LET hit == CacheScan(c, ip, cache_ttl, t, 0)
        route == lookup_route_optimized(h, root, ip)
        entry == [ip |-> ip, route |-> route, timestamp |-> t]
    IN  IF hit # -1
        THEN [cache |-> c, route |-> c.entries[hit].route,
              consulted |-> FALSE, scanned |-> hit + 1, lookups |-> 0]
        ELSE IF route # NoRoute /\ c.size < c.capacity
        THEN [cache |-> [c EXCEPT !.entries[c.size] = entry,
                                  !.size = c.size + 1],
              route |-> route, consulted |-> TRUE, scanned |-> c.size,
              lookups |-> 1]
        ELSE IF route # NoRoute
        THEN [cache |-> [c EXCEPT !.entries[0] = entry],
              route |-> route, consulted |-> TRUE, scanned |-> c.size,
              lookups |-> 1]
        ELSE [cache |-> c, route |-> route, consulted |-> TRUE,
              scanned |-> c.size, lookups |-> 1]

\* lookup_with_cache calling the trie lookup a second time for the value it
\* returns after a miss.
lookup_with_cache_twice(h, root, c, ip, cache_ttl, t) ==
    LET hit == CacheScan(c, ip, cache_ttl, t, 0)
        route == lookup_route_optimized(h, root, ip)
    IN  IF hit # -1
        THEN [cache |-> c, route |-> c.entries[hit].route,
              consulted |-> FALSE, scanned |-> hit + 1, lookups |-> 0]
        ELSE IF route # NoRoute /\ c.size < c.capacity
        THEN [cache |-> [c EXCEPT
                            !.entries[c.size] =
                                [ip |-> ip, route |-> route, timestamp |-> t],
                            !.size = c.size + 1],
              route |-> lookup_route_optimized(h, root, ip),
              consulted |-> TRUE, scanned |-> c.size, lookups |-> 2]
        ELSE [cache |-> c, route |-> lookup_route_optimized(h, root, ip),
              consulted |-> TRUE, scanned |-> c.size, lookups |-> 2]

\* lookup_with_cache without the test of route: a lookup that found no
\* route is cached like any other.
lookup_with_cache_null(h, root, c, ip, cache_ttl, t) ==
    LET hit == CacheScan(c, ip, cache_ttl, t, 0)
        route == lookup_route_optimized(h, root, ip)
    IN  IF hit # -1
        THEN [cache |-> c, route |-> c.entries[hit].route,
              consulted |-> FALSE, scanned |-> hit + 1, lookups |-> 0]
        ELSE IF c.size < c.capacity
        THEN [cache |-> [c EXCEPT
                            !.entries[c.size] =
                                [ip |-> ip, route |-> route, timestamp |-> t],
                            !.size = c.size + 1],
              route |-> route, consulted |-> TRUE, scanned |-> c.size,
              lookups |-> 1]
        ELSE [cache |-> c, route |-> route, consulted |-> TRUE,
              scanned |-> c.size, lookups |-> 1]

\* lookup_with_cache(root, cache, ip, cache_ttl) with the clock reading t:
\* the cache after the call, the route returned, whether
\* lookup_route_optimized was called and how often, and the number of
\* entries the scan loop compared (all size of them when it ran out, the
\* entries up to the hit otherwise).
lookup_with_cache(h, root, c, ip, cache_ttl, t) ==
    LET hit == CacheScan(c, ip, cache_ttl, t, 0)
        route == lookup_route_optimized(h, root, ip)
    IN  IF hit # -1
        THEN [cache |-> c, route |-> c.entries[hit].route,
              consulted |-> FALSE, scanned |-> hit + 1, lookups |-> 0]
        ELSE IF route # NoRoute /\ c.size < c.capacity
        THEN [cache |-> [c EXCEPT
                            !.entries[c.size] =
                                [ip |-> ip, route |-> route, timestamp |-> t],
                            !.size = c.size + 1],
              route |-> route, consulted |-> TRUE, scanned |-> c.size,
              lookups |-> 1]
        ELSE [cache |-> c, route |-> route, consulted |-> TRUE,
              scanned |-> c.size, lookups |-> 1]

\* ---------------------------------------------------------- free_trie_node

\* What a call of free_trie_node that has released nothing reports: the
\* nodes and the route records passed to free(), in the order of the calls,
\* and whether a node was read after it had been passed to free().
NothingReleased == [nodes |-> <<>>, records |-> <<>>, touched |-> FALSE]

RECURSIVE free_trie_node_left_only(_, _, _)
\* free_trie_node without the recursion into children[1].
free_trie_node_left_only(h, node, log) ==
    IF node = NULL
    THEN [heap |-> h, log |-> log]
    ELSE IF node \notin DOMAIN h
    THEN [heap |-> h, log |-> [log EXCEPT !.touched = TRUE]]
    ELSE LET l == free_trie_node_left_only(h, h[node].children[0], log)
             data == l.heap[node].data
         IN  [heap |-> free(l.heap, node),
              log |-> [nodes |-> Append(l.log.nodes, node),
                       records |-> IF data # NoRoute
                                   THEN Append(l.log.records, data)
                                   ELSE l.log.records,
                       touched |-> l.log.touched]]

RECURSIVE free_trie_node(_, _, _)
\* free_trie_node(node) on heap h: the heap after the call and log extended
\* by what the call released.
free_trie_node(h, node, log) ==
    IF node = NULL
    THEN [heap |-> h, log |-> log]
    ELSE IF node \notin DOMAIN h
    THEN [heap |-> h, log |-> [log EXCEPT !.touched = TRUE]]
    ELSE LET l == free_trie_node(h, h[node].children[0], log)
             r == free_trie_node(l.heap, l.heap[node].children[1], l.log)
             data == r.heap[node].data
         IN  [heap |-> free(r.heap, node),
              log |-> [nodes |-> Append(r.log.nodes, node),
                       records |-> IF data # NoRoute
                                   THEN Append(r.log.records, data)
                                   ELSE r.log.records,
                       touched |-> r.log.touched]]

\* ------------------------------------------------------------- the machine

\* prefix/prefix_len names the same (prefix, length) pair as route r: the
\* lengths agree and so do the prefix_len significant bits.
SameKey(r, prefix, prefix_len) ==
    /\ r.prefix_len = prefix_len
    /\ r.prefix \div (2^(AddrBits - prefix_len))
           = prefix \div (2^(AddrBits - prefix_len))

\* The caller's account of what it has inserted, after insert_route
\* returned ret for route.
AfterInsert(inst, route, ret) ==
    IF ret = 0
    THEN {r \in inst : ~SameKey(r, route.prefix, route.prefix_len)}
             \cup {route}
    ELSE inst

\* The same after delete_route returned ret for (prefix, prefix_len).
AfterDelete(inst, prefix, prefix_len, ret) ==
    IF ret = 0
    THEN {r \in inst : ~SameKey(r, prefix, prefix_len)}
    ELSE inst

\* The frame of a caller that is not inside lookup_route_optimized.
IdleFrame ==
    [pc |-> "idle", ip |-> 0, i |-> 0, current |-> NULL,
     best_match |-> NoRoute]

\* The frame of a writer that is not inside insert_route.
IdleWriter ==
    [pc |-> "idle", route |-> NoRoute, i |-> 0, current |-> NULL,
     stores |-> {}]

Init ==
    /\ nodes = create_trie_node(<<>>, 1).heap
    /\ cache = create_route_cache(CacheCapacity, 2).cache
    /\ now = 0
    /\ readers = [r \in ReaderIds |-> IdleFrame]
    /\ writer = IdleWriter
    /\ installed = {}
    /\ last = [op |-> "init"]

Insert(route, avail) ==
    LET r == insert_route(nodes, Root, route, avail)
    IN  /\ nodes' = r.heap
        /\ installed' = AfterInsert(installed, route, r.ret)
        /\ last' = [op |-> "insert", ret |-> r.ret]
        /\ UNCHANGED <<writer, cache, now, readers>>

\* Delete emptying the cache as well.
DeleteInvalidating(prefix, prefix_len) ==
    LET r == delete_route(nodes, Root, prefix, prefix_len)
    IN  /\ nodes' = r.heap
        /\ installed' = AfterDelete(installed, prefix, prefix_len, r.ret)
        /\ last' = [op |-> "delete", ret |-> r.ret]
        /\ cache' = [cache EXCEPT !.size = 0]
        /\ UNCHANGED <<writer, now, readers>>

Delete(prefix, prefix_len) ==
    LET r == delete_route(nodes, Root, prefix, prefix_len)
    IN  /\ nodes' = r.heap
        /\ installed' = AfterDelete(installed, prefix, prefix_len, r.ret)
        /\ last' = [op |-> "delete", ret |-> r.ret]
        /\ UNCHANGED <<writer, cache, now, readers>>

Lookup(ip) ==
    /\ last' = [op |-> "lookup",
                route |-> lookup_route_optimized(nodes, Root, ip)]
    /\ UNCHANGED <<writer, nodes, cache, now, readers, installed>>

LookupWithCache(ip, cache_ttl) ==
    LET r == lookup_with_cache(nodes, Root, cache, ip, cache_ttl, now)
    IN  /\ cache' = r.cache
        /\ last' = [op |-> "lookup_with_cache", route |-> r.route,
                    consulted |-> r.consulted]
        /\ UNCHANGED <<writer, nodes, now, readers, installed>>

\* The clock advances.
Tick ==
    /\ now < MaxTime
    /\ now' = now + 1
    /\ UNCHANGED <<writer, nodes, cache, readers, installed, last>>

Next ==
    \/ \E route \in Routes, avail \in AvailChoices : Insert(route, avail)
    \/ \E prefix \in Addrs, prefix_len \in PrefixLens :
           Delete(prefix, prefix_len)
    \/ \E ip \in Addrs : Lookup(ip)

Spec == Init /\ [][Next]_vars

\* The trie with its cache: inserts and deletes of the cache routes, cached
\* lookups, and the clock.
NextCache ==
    \/ \E route \in CacheRoutes : Insert(route, AddrBits)
    \/ \E route \in CacheRoutes : Delete(route.prefix, route.prefix_len)
    \/ \E ip \in CacheAddrs, cache_ttl \in Ttls :
           LookupWithCache(ip, cache_ttl)
    \/ Tick

SpecCache == Init /\ [][NextCache]_vars

\* The trie used with prefix lengths of at least 1 only: inserts of such
\* routes with any amount of free memory, deletes of such keys, lookups.
NextMap ==
    \/ \E route \in {r \in Routes : r.prefix_len >= 1},
          avail \in AvailChoices : Insert(route, avail)
    \/ \E prefix \in Addrs, prefix_len \in PrefixLens \ {0} :
           Delete(prefix, prefix_len)
    \/ \E ip \in Addrs : Lookup(ip)

SpecMap == Init /\ [][NextMap]_vars

\* The trie driven through every prefix length, 0 and AddrBits included:
\* inserts of any route with memory to spare, and deletes of any key.
NextBuffers ==
    \/ \E route \in Routes : Insert(route, AddrBits)
    \/ \E prefix \in Addrs, prefix_len \in PrefixLens :
           Delete(prefix, prefix_len)

SpecBuffers == Init /\ [][NextBuffers]_vars

\* A route_entry_t with its last_update field spelled out.
Stamped(route, last_update) ==
    [next_hop |-> route.next_hop, prefix |-> route.prefix,
     prefix_len |-> route.prefix_len, last_update |-> last_update]

\* insert_route(root, route) called when the clock reads now, on a record
\* whose last_update field holds last_update: whatever the caller, or
\* nobody, wrote there.  insert_route stores the pointer (line 69) and
\* writes no field of the record.
InsertAt(route, last_update, avail) ==
    LET stamped == Stamped(route, last_update)
        r == insert_route(nodes, Root, stamped, avail)
    IN  /\ nodes' = r.heap
        /\ installed' = AfterInsert(installed, stamped, r.ret)
        /\ last' = [op |-> "insert", ret |-> r.ret, route |-> stamped,
                    t |-> now]
        /\ UNCHANGED <<writer, cache, now, readers>>

\* The trie holding records with a last_update field, and the clock.
NextStamp ==
    \/ \E route \in ReaderRoutes, last_update \in 0..MaxTime :
           InsertAt(route, last_update, AddrBits)
    \/ \E route \in ReaderRoutes : Delete(route.prefix, route.prefix_len)
    \/ \E ip \in CacheAddrs : Lookup(ip)
    \/ Tick

SpecStamp == Init /\ [][NextStamp]_vars

\* The caller still has its trie: free_trie_node has not been called on
\* the root since the trie was created.
Alive ==
    Root \in DOMAIN nodes

\* The caller calls free_trie_node(node), node being the root of its trie
\* or NULL (the empty tree; all it has once the trie is torn down).
FreeTrieNode(node) ==
    LET t == free_trie_node(nodes, node, NothingReleased)
    IN  /\ node = NULL \/ Alive
        /\ nodes' = t.heap
        /\ installed' = IF node = NULL THEN installed ELSE {}
        /\ last' = [op |-> "free_trie_node", node |-> node,
                    released |-> t.log]
        /\ UNCHANGED <<writer, cache, now, readers>>

\* The caller, having torn its trie down, creates the root of a new one.
CreateTrie ==
    /\ ~Alive
    /\ nodes' = create_trie_node(nodes, 1).heap
    /\ last' = [op |-> "create_trie_node"]
    /\ UNCHANGED <<writer, cache, now, readers, installed>>

\* The life of a trie: inserts and deletes while it is there, teardown,
\* teardown of the empty tree, and a new trie afterwards.
NextTeardown ==
    \/ Alive /\ \E route \in Routes, avail \in AvailChoices :
                    Insert(route, avail)
    \/ Alive /\ \E prefix \in Addrs, prefix_len \in PrefixLens :
                    Delete(prefix, prefix_len)
    \/ \E node \in {Root, NULL} : FreeTrieNode(node)
    \/ CreateTrie

SpecTeardown == Init /\ [][NextTeardown]_vars

\* The process has faulted: it runs no further.
Crashed ==
    last.op = "create_route_cache" /\ last.fault

\* The caller replaces its cache by create_route_cache(capacity), malloc
\* granting avail of the two allocations the call makes.
CreateRouteCache(capacity, avail) ==
    LET r == create_route_cache(capacity, avail)
    IN  /\ cache' = IF r.fault THEN cache ELSE r.cache
        /\ last' = [op |-> "create_route_cache", avail |-> avail,
                    fault |-> r.fault,
                    error |-> ~r.fault /\ r.cache = NoCache]
        /\ UNCHANGED <<writer, nodes, now, readers, installed>>

\* The operations that allocate, with allocations that can fail: inserts
\* (and the deletes that make room again) and cache construction.
NextAlloc ==
    \/ ~Crashed /\ \E route \in Routes, avail \in AvailChoices :
                      Insert(route, avail)
    \/ ~Crashed /\ \E prefix \in Addrs, prefix_len \in PrefixLens :
                      Delete(prefix, prefix_len)
    \/ ~Crashed /\ \E capacity \in 1..CacheCapacity, avail \in 0..2 :
                      CreateRouteCache(capacity, avail)

SpecAlloc == Init /\ [][NextAlloc]_vars

\* ------------------------------ lookup_route_optimized, statement by statement

\* Caller r enters lookup_route_optimized(root, ip): current = root,
\* best_match = NULL, i = 0.
LookupCall(r, ip) ==
    /\ readers[r].pc = "idle"
    /\ readers' = [readers EXCEPT ![r] =
                       [pc |-> "L80", ip |-> ip, i |-> 0, current |-> Root,
                        best_match |-> NoRoute]]
    /\ UNCHANGED <<writer, nodes, cache, now, installed, last>>

\* The frame of caller r after it has read through current when current
\* is NULL, wild or the address of a freed node: the call has left defined
\* behaviour and the model follows it no further.
Fault(r) ==
    [readers EXCEPT ![r].pc = "fault"]

\* The loop test and the test of the child slot: leave the loop when the
\* bits are used up or the slot reads empty.
LookupL80(r) ==
    LET f == readers[r]
    IN  /\ f.pc = "L80"
        /\ IF f.i >= AddrBits
           THEN readers' = [readers EXCEPT ![r].pc = "L94"]
           ELSE IF f.current \notin DOMAIN nodes
           THEN readers' = Fault(r)
           ELSE \E c \in ReadPtr(nodes[f.current].children[BitAt(f.ip, f.i)]) :
                    readers' = [readers EXCEPT ![r].pc =
                                    IF c # NULL THEN "L87" ELSE "L94"]
        /\ UNCHANGED <<writer, nodes, cache, now, installed, last>>

\* current = current->children[bit]
LookupL87(r) ==
    LET f == readers[r]
    IN  /\ f.pc = "L87"
        /\ IF f.current \notin DOMAIN nodes
           THEN readers' = Fault(r)
           ELSE \E c \in ReadPtr(nodes[f.current].children[BitAt(f.ip, f.i)]) :
                    readers' = [readers EXCEPT ![r].current = c,
                                               ![r].pc = "L89"]
        /\ UNCHANGED <<writer, nodes, cache, now, installed, last>>

\* if (current->is_leaf), and the i++ of the loop when it is not.
LookupL89(r) ==
    LET f == readers[r]
    IN  /\ f.pc = "L89"
        /\ IF f.current \notin DOMAIN nodes
           THEN readers' = Fault(r)
           ELSE \E leaf \in ReadInt(nodes[f.current].is_leaf) :
                    readers' = IF leaf # 0
                               THEN [readers EXCEPT ![r].pc = "L90"]
                               ELSE [readers EXCEPT ![r].pc = "L80",
                                                    ![r].i = f.i + 1]
        /\ UNCHANGED <<writer, nodes, cache, now, installed, last>>

\* LookupL90 with the assignment written the wrong way round:
\* current->data = best_match.
LookupL90Reversed(r) ==
    LET f == readers[r]
    IN  /\ f.pc = "L90"
        /\ nodes' = [nodes EXCEPT ![f.current].data = f.best_match]
        /\ readers' = [readers EXCEPT ![r].pc = "L80", ![r].i = f.i + 1]
        /\ UNCHANGED <<writer, cache, now, installed, last>>

\* best_match = current->data, and the i++ of the loop.
LookupL90(r) ==
    LET f == readers[r]
    IN  /\ f.pc = "L90"
        /\ IF f.current \notin DOMAIN nodes
           THEN readers' = Fault(r)
           ELSE \E data \in ReadRoute(nodes[f.current].data) :
                    readers' = [readers EXCEPT ![r].best_match = data,
                                               ![r].pc = "L80",
                                               ![r].i = f.i + 1]
        /\ UNCHANGED <<writer, nodes, cache, now, installed, last>>

\* return best_match
LookupL94(r) ==
    LET f == readers[r]
    IN  /\ f.pc = "L94"
        /\ readers' = [readers EXCEPT ![r] = IdleFrame]
        /\ last' = [op |-> "lookup", route |-> f.best_match]
        /\ UNCHANGED <<writer, nodes, cache, now, installed>>

\* No caller is inside lookup_route_optimized.
NoReader ==
    \A r \in ReaderIds : readers[r].pc = "idle"

\* Lookups interleaved with each other; the single writer inserts and
\* deletes only while no lookup is running.
NextReaders ==
    \/ NoReader /\ \E route \in ReaderRoutes : Insert(route, AddrBits)
    \/ NoReader /\ \E route \in ReaderRoutes :
                       Delete(route.prefix, route.prefix_len)
    \/ \E r \in ReaderIds, ip \in CacheAddrs : LookupCall(r, ip)
    \/ \E r \in ReaderIds : LookupL80(r)
    \/ \E r \in ReaderIds : LookupL87(r)
    \/ \E r \in ReaderIds : LookupL89(r)
    \/ \E r \in ReaderIds : LookupL90(r)
    \/ \E r \in ReaderIds : LookupL94(r)

SpecReaders == Init /\ [][NextReaders]_vars

\* --------------------------------------- insert_route, statement by statement

\* The bit insert_route's loop is looking at.
InsertBit(w) ==
    CharToBit(ip_to_binary(w.route.prefix, w.route.prefix_len)[w.i + 1])

\* Heap h after the store s = [node, field, value] has reached memory.
Store(h, s) ==
    CASE s.field = "children0" -> [h EXCEPT ![s.node].children[0] = s.value]
      [] s.field = "children1" -> [h EXCEPT ![s.node].children[1] = s.value]
      [] s.field = "prefix" -> [h EXCEPT ![s.node].prefix = s.value]
      [] s.field = "prefix_len" -> [h EXCEPT ![s.node].prefix_len = s.value]
      [] s.field = "data" -> [h EXCEPT ![s.node].data = s.value]
      [] s.field = "is_leaf" -> [h EXCEPT ![s.node].is_leaf = s.value]

\* The stores of create_trie_node into the node malloc returned.
InitStores(node) ==
    {[node |-> node, field |-> "children0", value |-> NULL],
     [node |-> node, field |-> "children1", value |-> NULL],
     [node |-> node, field |-> "prefix", value |-> NULL],
     [node |-> node, field |-> "prefix_len", value |-> 0],
     [node |-> node, field |-> "data", value |-> NoRoute],
     [node |-> node, field |-> "is_leaf", value |-> 0]}

\* The store current->children[bit] = node.
LinkStore(current, bit, node) ==
    [node |-> current,
     field |-> IF bit = 0 THEN "children0" ELSE "children1",
     value |-> node]

\* The writer enters insert_route(root, route): current = root, i = 0.
InsertCall(route) ==
    /\ writer.pc = "idle"
    /\ writer' = [pc |-> "L58", route |-> route, i |-> 0, current |-> Root,
                  stores |-> {}]
    /\ UNCHANGED <<nodes, cache, now, readers, installed, last>>

\* The loop test and if (!current->children[bit]).
InsertL58 ==
    /\ writer.pc = "L58"
    /\ writer' = [writer EXCEPT !.pc =
                      IF writer.i >= writer.route.prefix_len
                      THEN "L69"
                      ELSE IF nodes[writer.current]
                                  .children[InsertBit(writer)] = NULL
                      THEN "L62"
                      ELSE "L66"]
    /\ UNCHANGED <<nodes, cache, now, readers, installed, last>>

\* current->children[bit] = create_trie_node(), up to the stores being
\* issued.  When malloc fails create_trie_node returns NULL, the slot is
\* written NULL again and insert_route returns -1.  Otherwise the node is
\* there with nothing written to it, and the stores that initialise and
\* link it are issued: plain stores, with a lookup racing on the same
\* memory, the order in which they reach memory is not determined.
InsertL62 ==
    LET node == malloc(nodes, 1)
    IN  /\ writer.pc = "L62"
        /\ IF node = NULL
           THEN /\ writer' = IdleWriter
                /\ last' = [op |-> "insert", ret |-> -1]
                /\ UNCHANGED nodes
           ELSE /\ nodes' = [m \in DOMAIN nodes \cup {node} |->
                                IF m = node THEN UninitNode ELSE nodes[m]]
                /\ writer' = [writer EXCEPT
                                  !.pc = "L63",
                                  !.stores =
                                      InitStores(node) \cup
                                      {LinkStore(writer.current,
                                                 InsertBit(writer), node)}]
                /\ UNCHANGED last
        /\ UNCHANGED <<cache, now, readers, installed>>

\* One of the stores issued reaches memory.
InsertStore ==
    /\ writer.pc \in {"L63", "L71"}
    /\ \E s \in writer.stores :
           /\ nodes' = Store(nodes, s)
           /\ writer' = [writer EXCEPT !.stores = writer.stores \ {s}]
    /\ UNCHANGED <<cache, now, readers, installed, last>>

\* if (!current->children[bit]) return -1: not taken, the node is there.
InsertL63 ==
    /\ writer.pc = "L63"
    /\ writer.stores = {}
    /\ writer' = [writer EXCEPT !.pc = "L66"]
    /\ UNCHANGED <<nodes, cache, now, readers, installed, last>>

\* current = current->children[bit], and the i++ of the loop.
InsertL66 ==
    /\ writer.pc = "L66"
    /\ writer' = [writer EXCEPT
                      !.current =
                          nodes[writer.current].children[InsertBit(writer)],
                      !.i = writer.i + 1,
                      !.pc = "L58"]
    /\ UNCHANGED <<nodes, cache, now, readers, installed, last>>

\* current->data = route; current->is_leaf = 1: both stores are issued.
InsertL69 ==
    /\ writer.pc = "L69"
    /\ writer' = [writer EXCEPT
                      !.pc = "L71",
                      !.stores =
                          {[node |-> writer.current, field |-> "data",
                            value |-> writer.route],
                           [node |-> writer.current, field |-> "is_leaf",
                            value |-> 1]}]
    /\ UNCHANGED <<nodes, cache, now, readers, installed, last>>

\* return 0
InsertL71 ==
    /\ writer.pc = "L71"
    /\ writer.stores = {}
    /\ writer' = IdleWriter
    /\ installed' = AfterInsert(installed, writer.route, 0)
    /\ last' = [op |-> "insert", ret |-> 0]
    /\ UNCHANGED <<nodes, cache, now, readers>>

\* The caller whose lookups race with the writer.
RaceReaders == {1}

\* One writer thread, which inserts statement by statement and deletes, and
\* one thread of lookups run statement by statement, with no
\* synchronisation between them.
NextRace ==
    \/ \E route \in ReaderRoutes : InsertCall(route)
    \/ InsertL58
    \/ InsertL62
    \/ InsertStore
    \/ InsertL63
    \/ InsertL66
    \/ InsertL69
    \/ InsertL71
    \/ writer.pc = "idle" /\ \E route \in ReaderRoutes :
                                 Delete(route.prefix, route.prefix_len)
    \/ \E r \in RaceReaders, ip \in CacheAddrs : LookupCall(r, ip)
    \/ \E r \in RaceReaders : LookupL80(r)
    \/ \E r \in RaceReaders : LookupL87(r)
    \/ \E r \in RaceReaders : LookupL89(r)
    \/ \E r \in RaceReaders : LookupL90(r)
    \/ \E r \in RaceReaders : LookupL94(r)

SpecRace == Init /\ [][NextRace]_vars

\* ------------------------------------------- delete_route, statement by statement

\* The writer enters delete_route(root, prefix, prefix_len): current = root,
\* path_len = 0 (path is the sequence of slots recorded so far), i = 0.
\* The frame keeps the key in route and the value to be returned in ret.
DeleteCall(prefix, prefix_len) ==
    /\ writer.pc = "idle"
    /\ writer' = [pc |-> "D106",
                  route |-> [next_hop |-> 0, prefix |-> prefix,
                             prefix_len |-> prefix_len],
                  i |-> 0, current |-> Root, stores |-> {},
                  path |-> <<>>, ret |-> 0]
    /\ UNCHANGED <<nodes, cache, now, readers, installed, last>>

\* The loop test of the descent and if (!current->children[bit]) return -1.
DeleteL106 ==
    /\ writer.pc = "D106"
    /\ writer' =
           IF writer.i >= writer.route.prefix_len
           THEN [writer EXCEPT !.pc = "D117"]
           ELSE IF nodes[writer.current].children[InsertBit(writer)] = NULL
           THEN [writer EXCEPT !.pc = "return", !.ret = -1]
           ELSE [writer EXCEPT !.pc = "D113"]
    /\ UNCHANGED <<nodes, cache, now, readers, installed, last>>

\* path[path_len++] = &current->children[bit];
\* current = current->children[bit]; and the i++ of the loop.
DeleteL113 ==
    /\ writer.pc = "D113"
    /\ writer' = [writer EXCEPT
                      !.path = Append(writer.path,
                                      <<writer.current, InsertBit(writer)>>),
                      !.current =
                          nodes[writer.current].children[InsertBit(writer)],
                      !.i = writer.i + 1,
                      !.pc = "D106"]
    /\ UNCHANGED <<nodes, cache, now, readers, installed, last>>

\* if (!current->is_leaf) return -1
DeleteL117 ==
    /\ writer.pc = "D117"
    /\ writer' = IF nodes[writer.current].is_leaf = 0
                 THEN [writer EXCEPT !.pc = "return", !.ret = -1]
                 ELSE [writer EXCEPT !.pc = "D121"]
    /\ UNCHANGED <<nodes, cache, now, readers, installed, last>>

\* current->is_leaf = 0
DeleteL121 ==
    /\ writer.pc = "D121"
    /\ nodes' = [nodes EXCEPT ![writer.current].is_leaf = 0]
    /\ writer' = [writer EXCEPT !.pc = "D122"]
    /\ UNCHANGED <<cache, now, readers, installed, last>>

\* current->data = NULL, and the clean-up loop's int i = path_len - 1.
DeleteL122 ==
    /\ writer.pc = "D122"
    /\ nodes' = [nodes EXCEPT ![writer.current].data = NoRoute]
    /\ writer' = [writer EXCEPT !.pc = "D125",
                                !.i = Len(writer.path) - 1]
    /\ UNCHANGED <<cache, now, readers, installed, last>>

\* The clean-up loop's test, node = *path[i] and the test of the node:
\* go on to free it, or break, or leave the loop at i < 0.
DeleteL125 ==
    /\ writer.pc = "D125"
    /\ writer' =
           IF writer.i < 0
           THEN [writer EXCEPT !.pc = "return", !.ret = 0]
           ELSE LET slot == writer.path[writer.i + 1]
                    node == nodes[slot[1]].children[slot[2]]
                IN  IF /\ nodes[node].is_leaf = 0
                       /\ nodes[node].children[0] = NULL
                       /\ nodes[node].children[1] = NULL
                    THEN [writer EXCEPT !.pc = "D128"]
                    ELSE [writer EXCEPT !.pc = "return", !.ret = 0]
    /\ UNCHANGED <<nodes, cache, now, readers, installed, last>>

\* free(node)
DeleteL128 ==
    LET slot == writer.path[writer.i + 1]
    IN  /\ writer.pc = "D128"
        /\ nodes' = free(nodes, nodes[slot[1]].children[slot[2]])
        /\ writer' = [writer EXCEPT !.pc = "D129"]
        /\ UNCHANGED <<cache, now, readers, installed, last>>

\* *path[i] = NULL, and the i-- of the loop.
DeleteL129 ==
    LET slot == writer.path[writer.i + 1]
    IN  /\ writer.pc = "D129"
        /\ nodes' = [nodes EXCEPT ![slot[1]].children[slot[2]] = NULL]
        /\ writer' = [writer EXCEPT !.pc = "D125", !.i = writer.i - 1]
        /\ UNCHANGED <<cache, now, readers, installed, last>>

\* return -1 (lines 109 and 118) or return 0 (line 135).
DeleteReturn ==
    /\ writer.pc = "return"
    /\ writer' = IdleWriter
    /\ installed' = AfterDelete(installed, writer.route.prefix,
                                writer.route.prefix_len, writer.ret)
    /\ last' = [op |-> "delete", ret |-> writer.ret]
    /\ UNCHANGED <<nodes, cache, now, readers>>

\* One writer thread and one thread of lookups, both run statement by
\* statement, with no synchronisation between them.  The runs kept are
\* those in which a lookup overlaps one delete and nothing else of the
\* writer: inserts run while no lookup is running, and a delete returns
\* when the lookups that overlapped it have ended.
NextDeleteRace ==
    \/ NoReader /\ writer.pc = "idle" /\ \E route \in ReaderRoutes :
                                             Insert(route, AddrBits)
    \/ \E route \in ReaderRoutes : DeleteCall(route.prefix, route.prefix_len)
    \/ DeleteL106
    \/ DeleteL113
    \/ DeleteL117
    \/ DeleteL121
    \/ DeleteL122
    \/ DeleteL125
    \/ DeleteL128
    \/ DeleteL129
    \/ NoReader /\ DeleteReturn
    \/ \E r \in RaceReaders, ip \in CacheAddrs : LookupCall(r, ip)
    \/ \E r \in RaceReaders : LookupL80(r)
    \/ \E r \in RaceReaders : LookupL87(r)
    \/ \E r \in RaceReaders : LookupL89(r)
    \/ \E r \in RaceReaders : LookupL90(r)
    \/ \E r \in RaceReaders : LookupL94(r)

SpecDeleteRace == Init /\ [][NextDeleteRace]_vars

\* --------------------------------------- lookup_with_cache, statement by statement

\* Caller r enters lookup_with_cache(root, cache, ip, cache_ttl):
\* now = time(NULL), and the scan loop's int i = 0.
CacheCall(r, ip, cache_ttl) ==
    /\ readers[r].pc = "idle"
    /\ readers' = [readers EXCEPT ![r] =
                       [pc |-> "C213", ip |-> ip, i |-> 0, current |-> NULL,
                        best_match |-> NoRoute, cache_ttl |-> cache_ttl,
                        now |-> now, route |-> NoRoute]]
    /\ UNCHANGED <<writer, nodes, cache, now, installed, last>>

\* One round of the scan loop: its test i < cache->size, the comparison of
\* entries[i] and the return of its route on a hit, the i++ otherwise.
\* With size beyond what was ever stored, entries[i] is a read of memory
\* behind the array that nothing wrote: the call faults, or what it reads
\* fails the comparison, or passes it and a wild route pointer is returned.
CacheL213(r) ==
    LET f == readers[r]
    IN  /\ f.pc = "C213"
        /\ IF f.i >= cache.size
           THEN readers' = [readers EXCEPT ![r].pc = "C221"]
           ELSE IF f.i \notin DOMAIN cache.entries
           THEN \/ readers' = Fault(r)
                \/ readers' = [readers EXCEPT ![r].i = f.i + 1]
                \/ readers' = [readers EXCEPT ![r].route = GarbageRoute,
                                              ![r].pc = "C231"]
           ELSE IF /\ cache.entries[f.i].ip = f.ip
                   /\ (f.now - cache.entries[f.i].timestamp) < f.cache_ttl
           THEN readers' = [readers EXCEPT
                                ![r].route = cache.entries[f.i].route,
                                ![r].pc = "C231"]
           ELSE readers' = [readers EXCEPT ![r].i = f.i + 1]
        /\ UNCHANGED <<writer, nodes, cache, now, installed, last>>

\* route = lookup_route_optimized(root, ip)
CacheL221(r) ==
    LET f == readers[r]
    IN  /\ f.pc = "C221"
        /\ readers' = [readers EXCEPT
                           ![r].route =
                               lookup_route_optimized(nodes, Root, f.ip),
                           ![r].pc = "C224"]
        /\ UNCHANGED <<writer, nodes, cache, now, installed, last>>

\* if (route && cache->size < cache->capacity)
CacheL224(r) ==
    LET f == readers[r]
    IN  /\ f.pc = "C224"
        /\ readers' = [readers EXCEPT ![r].pc =
                           IF f.route # NoRoute /\ cache.size < cache.capacity
                           THEN "C225"
                           ELSE "C231"]
        /\ UNCHANGED <<writer, nodes, cache, now, installed, last>>

\* Cache c after a store to one field of entries[k].  The array has capacity
\* cells; a store to entries[k] with k >= capacity lands in the memory
\* behind it, kept here as a cell of its own.
StoreEntry(c, k, entry) ==
    [c EXCEPT !.entries =
        [j \in DOMAIN c.entries \cup {k} |-> IF j = k THEN entry
                                              ELSE c.entries[j]]]

\* The cell entries[k] as the stores so far have left it.
EntryAt(c, k) ==
    IF k \in DOMAIN c.entries THEN c.entries[k] ELSE UninitEntry

\* cache->entries[cache->size].ip = ip, the index read anew.  A store
\* behind the end of the array is undefined behaviour: either it lands in
\* the memory there and the call goes on, or the call faults.
CacheL225(r) ==
    LET entry == [EntryAt(cache, cache.size) EXCEPT !.ip = readers[r].ip]
    IN  /\ readers[r].pc = "C225"
        /\ \/ /\ cache' = StoreEntry(cache, cache.size, entry)
              /\ readers' = [readers EXCEPT ![r].pc = "C226"]
           \/ /\ cache.size >= cache.capacity
              /\ readers' = Fault(r)
              /\ UNCHANGED cache
        /\ UNCHANGED <<writer, nodes, now, installed, last>>

\* cache->entries[cache->size].route = route
CacheL226(r) ==
    LET entry == [EntryAt(cache, cache.size) EXCEPT
                      !.route = readers[r].route]
    IN  /\ readers[r].pc = "C226"
        /\ \/ /\ cache' = StoreEntry(cache, cache.size, entry)
              /\ readers' = [readers EXCEPT ![r].pc = "C227"]
           \/ /\ cache.size >= cache.capacity
              /\ readers' = Fault(r)
              /\ UNCHANGED cache
        /\ UNCHANGED <<writer, nodes, now, installed, last>>

\* cache->entries[cache->size].timestamp = now
CacheL227(r) ==
    LET entry == [EntryAt(cache, cache.size) EXCEPT
                      !.timestamp = readers[r].now]
    IN  /\ readers[r].pc = "C227"
        /\ \/ /\ cache' = StoreEntry(cache, cache.size, entry)
              /\ readers' = [readers EXCEPT ![r].pc = "C228"]
           \/ /\ cache.size >= cache.capacity
              /\ readers' = Fault(r)
              /\ UNCHANGED cache
        /\ UNCHANGED <<writer, nodes, now, installed, last>>

\* cache->size++
CacheL228(r) ==
    /\ readers[r].pc = "C228"
    /\ cache' = [cache EXCEPT !.size = cache.size + 1]
    /\ readers' = [readers EXCEPT ![r].pc = "C231"]
    /\ UNCHANGED <<writer, nodes, now, installed, last>>

\* return route (line 216 after a hit, line 231 otherwise).
CacheL231(r) ==
    LET f == readers[r]
    IN  /\ f.pc = "C231"
        /\ readers' = [readers EXCEPT ![r] = IdleFrame]
        /\ last' = [op |-> "lookup_with_cache", route |-> f.route]
        /\ UNCHANGED <<writer, nodes, cache, now, installed>>

\* Two threads calling lookup_with_cache on one cache, statement by
\* statement, with no synchronisation between them; the route of the one-bit
\* prefix "1" is inserted while neither is inside a call, and the calls
\* pass a cache_ttl of 0 (no entry is young enough) or 1.
NextCacheRace ==
    \/ NoReader /\ \E route \in {c \in CacheRoutes : c.next_hop = 1} :
                       Insert(route, AddrBits)
    \/ \E r \in ReaderIds, ip \in CacheAddrs, cache_ttl \in {0, 1} :
           CacheCall(r, ip, cache_ttl)
    \/ \E r \in ReaderIds : CacheL213(r)
    \/ \E r \in ReaderIds : CacheL221(r)
    \/ \E r \in ReaderIds : CacheL224(r)
    \/ \E r \in ReaderIds : CacheL225(r)
    \/ \E r \in ReaderIds : CacheL226(r)
    \/ \E r \in ReaderIds : CacheL227(r)
    \/ \E r \in ReaderIds : CacheL228(r)
    \/ \E r \in ReaderIds : CacheL231(r)

SpecCacheRace == Init /\ [][NextCacheRace]_vars

\* ------------------------------------------------- what the claims speak of

\* Route r covers address ip: the prefix_len significant bits of r.prefix
\* are the leading bits of ip.
Matches(r, ip) ==
    ip \div (2^(AddrBits - r.prefix_len))
        = r.prefix \div (2^(AddrBits - r.prefix_len))

\* The longest-prefix match for ip among the routes of inst, NoRoute when
\* none covers ip.
LongestMatch(inst, ip) ==
    LET m == {r \in inst : Matches(r, ip)}
    IN  IF m = {}
        THEN NoRoute
        ELSE CHOOSE r \in m : \A q \in m : q.prefix_len <= r.prefix_len

\* What lookup returns for every address on heap h.
LookupTable(h) ==
    [ip \in Addrs |-> lookup_route_optimized(h, Root, ip)]

RECURSIVE NodeAt(_, _, _)
\* The node k child steps below the root along the leading bits of prefix,
\* NULL when a child on the way is missing.
NodeAt(h, prefix, k) ==
    IF k = 0
    THEN Root
    ELSE LET p == NodeAt(h, prefix, k - 1)
         IN  IF p = NULL THEN NULL ELSE h[p].children[BitAt(prefix, k - 1)]

RECURSIVE ReachFrom(_, _)
\* The allocated nodes reachable from node n through child slots.
ReachFrom(h, n) ==
    IF n \notin DOMAIN h
    THEN {}
    ELSE {n} \cup UNION {ReachFrom(h, h[n].children[b]) : b \in {0, 1}}

\* Node n of heap h is non-leaf and childless.
Useless(h, n) ==
    /\ h[n].is_leaf = 0
    /\ h[n].children[0] = NULL
    /\ h[n].children[1] = NULL

\* Every struct of the heap is fully initialised and every child slot is
\* empty or refers to an allocated node.
WellFormed(h) ==
    /\ Root \in DOMAIN h
    /\ \A n \in DOMAIN h :
           /\ DOMAIN h[n] = {"children", "prefix", "prefix_len", "data", "is_leaf"}
           /\ DOMAIN h[n].children = {0, 1}
           /\ \A b \in {0, 1} :
                  h[n].children[b] = NULL \/ h[n].children[b] \in DOMAIN h
           /\ h[n].is_leaf \in {0, 1}
           /\ h[n].data \in Routes \cup {NoRoute}

\* ------------------------------------------------------------------ claims

\* C1: for any set of inserted (prefix, length) pairs with length in
\* 0..AddrBits and any address, lookup returns the installed route of
\* maximal length among those covering the address, or none when no
\* installed route covers it; a length-0 route covers every address.
C1_LongestMatch ==
    \A ip \in Addrs :
        lookup_route_optimized(nodes, Root, ip) = LongestMatch(installed, ip)

\* C2 as stated: from any reachable state, a successful insert of a route
\* followed by delete of the same (prefix, length) leaves lookup, for every
\* address, returning what it returned before the insert.
C2_InsertDeleteInverse ==
    \A route \in Routes :
        LET a == insert_route(nodes, Root, route, AddrBits)
            d == delete_route(a.heap, Root, route.prefix, route.prefix_len)
        IN  a.ret = 0 =>
                d.ret = 0 /\ LookupTable(d.heap) = LookupTable(nodes)

\* C2 amended: the same, for a route whose (prefix, length) is not
\* installed when it is inserted.
C2_InsertDeleteInverseFresh ==
    LET before == LookupTable(nodes)
    IN  \A route \in Routes :
            (\A r \in installed :
                 ~SameKey(r, route.prefix, route.prefix_len)) =>
                LET a == insert_route(nodes, Root, route, AddrBits)
                    d == delete_route(a.heap, Root, route.prefix,
                                      route.prefix_len)
                IN  a.ret = 0 =>
                        d.ret = 0 /\ LookupTable(d.heap) = before

\* C2 witness: a delete has just succeeded on a trie that still holds a
\* route, and from here a fresh route two bits long that needs a new node
\* can be inserted and deleted again.
C2_Witness ==
    /\ last.op = "delete" /\ last.ret = 0
    /\ installed # {}
    /\ \E route \in Routes :
           /\ route.prefix_len = AddrBits
           /\ \A r \in installed : ~SameKey(r, route.prefix, route.prefix_len)
           /\ NodeAt(nodes, route.prefix, route.prefix_len) = NULL
           /\ LET a == insert_route(nodes, Root, route, AddrBits)
              IN  /\ a.ret = 0
                  /\ delete_route(a.heap, Root, route.prefix,
                                  route.prefix_len).ret = 0

\* C3: after any sequence of inserts and deletes no node below the root is
\* simultaneously non-leaf and childless.  (The root has no parent slot and
\* is never a candidate for pruning; the claim is read as exempting it.)
C3_Pruning ==
    \A n \in ReachFrom(nodes, Root) \ {Root} : ~Useless(nodes, n)

\* C4: after inserting two routes with identical (prefix, length) and
\* different payloads (the first is installed; the second is inserted over
\* it), every address whose longest match is that prefix looks up to the
\* second route, and no address looks up to the first.
C4_Overwrite ==
    \A r1 \in installed, r2 \in Routes :
        (SameKey(r1, r2.prefix, r2.prefix_len) /\ r1.next_hop # r2.next_hop) =>
            LET b == insert_route(nodes, Root, r2, AddrBits)
                inst == AfterInsert(installed, r2, b.ret)
            IN  b.ret = 0 =>
                    \A ip \in Addrs :
                        /\ LongestMatch(inst, ip) = r2 =>
                               lookup_route_optimized(b.heap, Root, ip) = r2
                        /\ lookup_route_optimized(b.heap, Root, ip) # r1

\* C7: delete_route returns -1 exactly when a child is missing along the
\* prefix_len-bit path or the terminal node is not a leaf, and then leaves
\* the heap as it was; after a delete that returned 0, deleting the same
\* prefix again returns -1.
C7_DeleteNotFound ==
    \A prefix \in Addrs, prefix_len \in PrefixLens :
        LET d == delete_route(nodes, Root, prefix, prefix_len)
            t == NodeAt(nodes, prefix, prefix_len)
            missing == t = NULL \/ nodes[t].is_leaf = 0
        IN  /\ d.ret \in {0, -1}
            /\ d.ret = -1 <=> missing
            /\ d.ret = -1 => d.heap = nodes
            /\ d.ret = 0 =>
                   delete_route(d.heap, Root, prefix, prefix_len).ret = -1

\* C7 witness: a delete has just returned -1 on a trie that holds a route
\* (which a delete can still remove) below a node that is on a path but is
\* no leaf itself.
C7_Witness ==
    /\ last.op = "delete" /\ last.ret = -1
    /\ \E r \in installed :
           /\ r.prefix_len > 1
           /\ delete_route(nodes, Root, r.prefix, r.prefix_len).ret = 0
           /\ LET t == NodeAt(nodes, r.prefix, r.prefix_len - 1)
              IN  t # NULL /\ nodes[t].is_leaf = 0

RECURSIVE MissingBelow(_, _, _, _)
\* The number of nodes missing on the path of route below node n, which is
\* k child steps below the root on that path.
MissingBelow(h, n, route, k) ==
    IF k = route.prefix_len
    THEN 0
    ELSE LET c == h[n].children[BitAt(route.prefix, k)]
         IN  IF c = NULL
             THEN route.prefix_len - k
             ELSE MissingBelow(h, c, route, k + 1)

\* The allocations insert_route needs for route on heap h: one for every
\* node missing along its prefix_len-bit path.
NodesNeeded(h, route) ==
    MissingBelow(h, Root, route, 0)

\* The allocations malloc can grant a call allowed avail of them when
\* unused node addresses are left.
Obtainable(unused, avail) ==
    IF avail < unused THEN avail ELSE unused

\* C8: insert_route returns -1 exactly when a node it needs cannot be
\* allocated; after such a failure (also one in mid-path) the heap is
\* well-formed (every child slot empty or referring to a fully initialised
\* node), lookup returns for every address what it returned before, and a
\* later insert given memory, and the lookups after it, work on a
\* well-formed heap.  (A failed insert that left the heap as it was leaves
\* it well-formed and the lookups unchanged, the heap being well-formed.)
C8_InsertAllocFailure ==
    LET before == LookupTable(nodes)
        unused == Cardinality(NodeIds \ DOMAIN nodes)
    IN  /\ WellFormed(nodes)
        /\ \A route \in Routes, avail \in AvailChoices :
               LET a == insert_route(nodes, Root, route, avail)
               IN  /\ a.ret \in {0, -1}
                   /\ a.ret = -1 <=>
                          NodesNeeded(nodes, route) > Obtainable(unused, avail)
                   /\ a.ret = -1 =>
                          \/ a.heap = nodes
                          \/ /\ WellFormed(a.heap)
                             /\ LookupTable(a.heap) = before
                             /\ WellFormed(insert_route(a.heap, Root, route,
                                                        AddrBits).heap)

\* C8 witness: an insert has just failed and left behind a node it created
\* before the allocation that failed.
C8_Witness ==
    /\ last.op = "insert" /\ last.ret = -1
    /\ \E n \in ReachFrom(nodes, Root) \ {Root} : Useless(nodes, n)

\* C10: with exactly a shorter route and a longer route extending it
\* installed, an address under the longer one resolves to the longer, an
\* address under the shorter only resolves to the shorter, and an address
\* under neither resolves to none, in whichever order they were inserted.
C10_NestedPrefixes ==
    \A s, l \in installed :
        (/\ s.prefix_len < l.prefix_len
         /\ Matches(s, l.prefix)
         /\ installed = {s, l}) =>
            \A ip \in Addrs :
                lookup_route_optimized(nodes, Root, ip) =
                    IF Matches(l, ip) THEN l
                    ELSE IF Matches(s, ip) THEN s
                    ELSE NoRoute

\* The indices of the cache entries for ip that are younger than cache_ttl.
FreshEntries(c, ip, cache_ttl, t) ==
    {i \in 0..(c.size - 1) :
        c.entries[i].ip = ip /\ t - c.entries[i].timestamp < cache_ttl}

\* C5: lookup_with_cache returns the route of a cached entry for the address
\* without calling the trie lookup whenever some entry for the address has
\* now - timestamp < ttl, and calls the trie lookup (returning its result)
\* whenever no entry for the address does.
C5_CacheTTL ==
    \A ip \in CacheAddrs, cache_ttl \in Ttls :
        LET r == lookup_with_cache(nodes, Root, cache, ip, cache_ttl, now)
            fresh == FreshEntries(cache, ip, cache_ttl, now)
        IN  /\ fresh # {} =>
                   /\ ~r.consulted
                   /\ \E i \in fresh : r.route = cache.entries[i].route
            /\ fresh = {} =>
                   /\ r.consulted
                   /\ r.route = lookup_route_optimized(nodes, Root, ip)

\* C5 witness: a cached lookup has just been served from an entry written
\* at an earlier clock reading, while another entry has aged out of a ttl
\* of 1.
C5_Witness ==
    /\ last.op = "lookup_with_cache"
    /\ ~last.consulted
    /\ \E ip \in CacheAddrs :
           /\ FreshEntries(cache, ip, 2, now) # {}
           /\ FreshEntries(cache, ip, 1, now) = {}

\* The routes anchored at a leaf of the trie.
Attached(h) ==
    {h[n].data : n \in {m \in ReachFrom(h, Root) : h[m].is_leaf # 0}}

\* C6: no value returned by lookup_with_cache refers to a route that a
\* delete has removed from the trie or an overwriting insert has displaced.
C6_NoStaleReference ==
    last.op = "lookup_with_cache" =>
        last.route = NoRoute \/ last.route \in Attached(nodes)

\* C9: lookup is a pure read.  No step of a lookup changes the heap, and a
\* lookup interleaved with other lookups returns what lookup returns when
\* run alone on the same heap.
C9_LookupPureRead ==
    /\ [](\A r \in ReaderIds :
              readers[r].pc = "L94" =>
                  readers[r].best_match =
                      lookup_route_optimized(nodes, Root, readers[r].ip))
    /\ [][readers' # readers => nodes' = nodes]_vars

\* C9 witness: one lookup is about to return a route while another is in
\* the middle of its walk.
C9_Witness ==
    \E r1, r2 \in ReaderIds :
        /\ r1 # r2
        /\ readers[r1].pc = "L94"
        /\ readers[r1].best_match # NoRoute
        /\ readers[r2].pc \in {"L87", "L89", "L90"}
        /\ readers[r2].i > 0

\* The distinct non-empty bit-prefixes of the routes of inst, each as
\* <<length, bits>>.
LivePaths(inst) ==
    UNION {{<<k, r.prefix \div (2^(AddrBits - k))>> : k \in 1..r.prefix_len} :
              r \in inst}

RECURSIVE PathsBelow(_, _, _, _)
\* The bit-paths, each as <<length, bits>>, of the nodes below node n,
\* which is k child steps below the root along bits.
PathsBelow(h, n, k, bits) ==
    UNION {IF h[n].children[b] = NULL
           THEN {}
           ELSE {<<k + 1, 2 * bits + b>>}
                    \cup PathsBelow(h, h[n].children[b], k + 1, 2 * bits + b) :
           b \in {0, 1}}

\* The nodes of heap h are exactly the root and one node for each distinct
\* non-empty bit-prefix of a route of inst.
ExactNodes(h, inst) ==
    LET live == LivePaths(inst)
    IN  /\ Cardinality(DOMAIN h) = 1 + Cardinality(live)
        /\ PathsBelow(h, Root, 0, 0) = live
        /\ DOMAIN h = ReachFrom(h, Root)

\* C11: the node set depends on the live routes only.  The empty trie has
\* the root alone, and from a state whose nodes are exactly the root plus
\* one node per distinct non-empty bit-prefix of a live route, every
\* successful insert and every delete leads to such a state again; so after
\* any sequence of successful inserts and deletes the node set is the one
\* the live routes determine.
C11_NodesFollowLiveRoutes ==
    /\ last.op = "init" => ExactNodes(nodes, installed)
    /\ ExactNodes(nodes, installed) =>
           /\ \A route \in Routes :
                  LET a == insert_route(nodes, Root, route, AddrBits)
                  IN  a.ret = 0 =>
                          ExactNodes(a.heap,
                                     AfterInsert(installed, route, a.ret))
           /\ \A prefix \in Addrs, prefix_len \in PrefixLens :
                  LET d == delete_route(nodes, Root, prefix, prefix_len)
                  IN  ExactNodes(d.heap,
                                 AfterDelete(installed, prefix, prefix_len,
                                             d.ret))

\* C11 witness: a delete has just succeeded, the trie still holds a route
\* below the root, its nodes are exactly those of the live routes, and a
\* route that needs a new node can be inserted from here.
C11_Witness ==
    /\ last.op = "delete" /\ last.ret = 0
    /\ ExactNodes(nodes, installed)
    /\ Cardinality(DOMAIN nodes) = 2
    /\ \E route \in Routes :
           /\ route.prefix_len = AddrBits
           /\ NodeAt(nodes, route.prefix, route.prefix_len) = NULL
           /\ insert_route(nodes, Root, route, AddrBits).ret = 0

\* C12: the cache size stays within 0..capacity, and once size equals
\* capacity no lookup_with_cache call changes the cache, whatever the
\* address and ttl; a call for an address with no unexpired entry (also
\* one whose entries have all expired) then calls the trie lookup and
\* returns its result.
C12_CacheCapacity ==
    /\ 0 <= cache.size
    /\ cache.size <= cache.capacity
    /\ cache.size = cache.capacity =>
           \A ip \in CacheAddrs, cache_ttl \in Ttls :
               LET r == lookup_with_cache(nodes, Root, cache, ip, cache_ttl,
                                          now)
               IN  /\ r.cache = cache
                   /\ FreshEntries(cache, ip, cache_ttl, now) = {} =>
                          /\ r.consulted
                          /\ r.route = lookup_route_optimized(nodes, Root, ip)

\* C12 witness: the cache is full, a cached lookup has just gone to the
\* trie and found a route, and some address has entries that have all
\* expired under a ttl of 1 while the trie has a route for it.
C12_Witness ==
    /\ cache.size = cache.capacity
    /\ last.op = "lookup_with_cache"
    /\ last.consulted
    /\ last.route # NoRoute
    /\ \E ip \in CacheAddrs :
           /\ \E i \in 0..(cache.size - 1) : cache.entries[i].ip = ip
           /\ FreshEntries(cache, ip, 1, now) = {}
           /\ lookup_route_optimized(nodes, Root, ip) # NoRoute

\* The nodes of heap h that have a route record attached.
WithRecord(h) ==
    {n \in DOMAIN h : h[n].data # NoRoute}

\* Sequence s lists every member of set S exactly once and nothing else.
ListsOnce(s, S) ==
    /\ Len(s) = Cardinality(S)
    /\ {s[i] : i \in 1..Len(s)} = S

Constructed(node) ==
    /\ node.children[0] # Garbage
    /\ node.children[1] # Garbage
    /\ node.data # GarbageRoute
    /\ node.is_leaf # Garbage

\* C14: a lookup running beside an insert never stands on a
\* partially-constructed node: the node it is about to read through has its
\* two child slots and its leaf/record fields written, and if its leaf flag
\* reads true its record is set.
C14_NoPartialNode ==
    \A r \in ReaderIds :
        LET f == readers[r]
        IN  (f.pc \in {"L80", "L87", "L89", "L90"}
                 /\ f.current \in DOMAIN nodes) =>
                /\ Constructed(nodes[f.current])
                /\ nodes[f.current].is_leaf = 1 =>
                       nodes[f.current].data # NoRoute

\* C15: in every interleaving of a delete with a lookup, the lookup never
\* reads the child slots, the leaf flag or the record of a node that has
\* been freed.  (A lookup faults when it reads through current; with
\* current the address of a node, that node has been freed.)
C15_NoFreedNodeRead ==
    \A r \in ReaderIds :
        ~(readers[r].pc = "fault" /\ readers[r].current \in NodeIds)

\* C16: an allocation failure in a core operation is reported as an error
\* result and the failed allocation is never dereferenced: insert_route
\* returns -1 whenever a node it needs cannot be allocated, and
\* create_route_cache, when malloc refuses one of its two allocations,
\* returns an error (NULL) without writing through a NULL pointer.
C16_AllocFailureReported ==
    /\ \A route \in Routes, avail \in AvailChoices :
           NodesNeeded(nodes, route) >
               Obtainable(Cardinality(NodeIds \ DOMAIN nodes), avail) =>
               insert_route(nodes, Root, route, avail).ret = -1
    /\ (last.op = "create_route_cache" /\ last.avail < 2) =>
           ~last.fault /\ last.error

\* The step bounds of a delete_route result d for a prefix of prefix_len
\* bits on heap h: at most prefix_len descents, at most prefix_len nodes
\* freed.
DeleteBounded(h, d, prefix_len) ==
    /\ d.descents <= prefix_len
    /\ Cardinality(DOMAIN h) - Cardinality(DOMAIN d.heap) <= prefix_len

\* C17: every operation ends within its bound.  From every reachable state,
\* for every input: lookup descends at most AddrBits nodes; insert descends
\* exactly prefix_len <= AddrBits nodes when it succeeds and no more when an
\* allocation fails; delete descends at most prefix_len nodes and frees at
\* most prefix_len nodes (also the delete of a route just inserted, whose
\* whole path it prunes, and the lookup along that path before it is
\* deleted); lookup_with_cache compares at most capacity entries and calls
\* the trie lookup at most once.
C17_BoundedSteps ==
    /\ \A ip \in Addrs :
           LookupLoop(nodes, Root, ip, 0, NoRoute).descents <= AddrBits
    /\ \A route \in Routes :
           LET a == insert_route(nodes, Root, route, AddrBits)
               d == delete_route(a.heap, Root, route.prefix, route.prefix_len)
           IN  /\ route.prefix_len <= AddrBits
               /\ a.descents <= route.prefix_len
               /\ a.ret = 0 => a.descents = route.prefix_len
               /\ DeleteBounded(a.heap, d, route.prefix_len)
               /\ LookupLoop(a.heap, Root, route.prefix, 0, NoRoute).descents
                      <= AddrBits
    /\ \A prefix \in Addrs, prefix_len \in PrefixLens :
           DeleteBounded(nodes,
                         delete_route(nodes, Root, prefix, prefix_len),
                         prefix_len)
    /\ \A ip \in CacheAddrs, cache_ttl \in Ttls :
           LET r == lookup_with_cache(nodes, Root, cache, ip, cache_ttl, now)
           IN  /\ r.scanned <= cache.capacity
               /\ r.lookups <= 1

\* C17 witness: with the cache full, a cached lookup has just compared
\* every entry and gone to the trie, and from here a route of full length
\* can be inserted whose delete prunes its whole path.
C17_Witness ==
    /\ last.op = "lookup_with_cache"
    /\ last.consulted
    /\ cache.size = cache.capacity
    /\ installed = {}
    /\ \E route \in Routes :
           LET a == insert_route(nodes, Root, route, AddrBits)
               d == delete_route(a.heap, Root, route.prefix, route.prefix_len)
           IN  /\ a.ret = 0
               /\ a.descents = AddrBits
               /\ Cardinality(DOMAIN a.heap) - Cardinality(DOMAIN d.heap)
                      = AddrBits

\* The nodes a successful delete of (prefix, prefix_len) on heap h must
\* destroy: with the terminal node unmarked, the nodes of the path, below
\* the root, from which down to the terminal node every node is non-leaf
\* and has no child off the path.
TrailingRun(h, prefix, prefix_len) ==
    LET terminal == NodeAt(h, prefix, prefix_len)
        Dead(j) ==
            LET n == NodeAt(h, prefix, j)
            IN  /\ n = terminal \/ h[n].is_leaf = 0
                /\ \A b \in {0, 1} :
                       \/ h[n].children[b] = NULL
                       \/ j < prefix_len /\ b = BitAt(prefix, j)
    IN  {NodeAt(h, prefix, k) :
            k \in {m \in 1..prefix_len : \A j \in m..prefix_len : Dead(j)}}

\* Heap h after that delete: the terminal node unmarked, the trailing run
\* gone, the child slot that pointed into it empty, all else as it was.
AfterPruning(h, prefix, prefix_len) ==
    LET terminal == NodeAt(h, prefix, prefix_len)
        gone == TrailingRun(h, prefix, prefix_len)
        cleared == [h EXCEPT ![terminal].is_leaf = 0,
                             ![terminal].data = NoRoute]
    IN  [n \in DOMAIN h \ gone |->
            [cleared[n] EXCEPT
                 !.children = [b \in {0, 1} |->
                                  IF cleared[n].children[b] \in gone
                                  THEN NULL
                                  ELSE cleared[n].children[b]]]]

\* C18: a delete that returns 0 unmarks the terminal node (leaf flag and
\* record) and destroys exactly the maximal trailing run of the path's
\* nodes that are then non-leaf and childless, bottom-up, stopping at the
\* first node that is a leaf or has a child; the slot that pointed to the
\* topmost destroyed node is emptied and nothing else is destroyed or
\* changed.
C18_DeletePrunesTrailingRun ==
    Alive =>
        \A prefix \in Addrs, prefix_len \in PrefixLens :
            LET d == delete_route(nodes, Root, prefix, prefix_len)
            IN  d.ret = 0 =>
                    d.heap = AfterPruning(nodes, prefix, prefix_len)

\* C18 witness: a delete has just succeeded, and a route is installed whose
\* delete prunes a node and then stops below the root at a node that is
\* still a leaf.
C18_Witness ==
    /\ Alive
    /\ last.op = "delete" /\ last.ret = 0
    /\ \E r \in installed :
           LET gone == TrailingRun(nodes, r.prefix, r.prefix_len)
               above == NodeAt(nodes, r.prefix, r.prefix_len - 1)
           IN  /\ r.prefix_len > 1
               /\ delete_route(nodes, Root, r.prefix, r.prefix_len).ret = 0
               /\ Cardinality(gone) = 1
               /\ nodes[above].is_leaf # 0

\* C19: when no entry for the address is younger than the ttl (none at all,
\* or only expired ones), lookup_with_cache returns exactly what the trie
\* lookup returns for the address; when that is a route and size < capacity
\* the cache afterwards is the cache before with the one entry
\* (address, route, now) written at index size and size one higher;
\* otherwise (no route found, or the cache full) the cache is unchanged.
C19_CacheMiss ==
    \A ip \in CacheAddrs, cache_ttl \in Ttls :
        FreshEntries(cache, ip, cache_ttl, now) = {} =>
            LET r == lookup_with_cache(nodes, Root, cache, ip, cache_ttl, now)
                route == lookup_route_optimized(nodes, Root, ip)
            IN  /\ r.route = route
                /\ IF route # NoRoute /\ cache.size < cache.capacity
                   THEN /\ r.cache.size = cache.size + 1
                        /\ r.cache.capacity = cache.capacity
                        /\ r.cache.entries[cache.size] =
                               [ip |-> ip, route |-> route, timestamp |-> now]
                        /\ \A i \in 0..(cache.capacity - 1) :
                               i # cache.size =>
                                   r.cache.entries[i] = cache.entries[i]
                   ELSE r.cache = cache

\* C19 witness: a cached lookup has just missed on an expired entry and
\* appended a second entry for the same address, and a lookup of an address
\* the trie has no route for would now miss and cache nothing.
C19_Witness ==
    /\ last.op = "lookup_with_cache"
    /\ last.consulted
    /\ last.route # NoRoute
    /\ cache.size = 2
    /\ cache.entries[0].ip = cache.entries[1].ip
    /\ cache.entries[0].timestamp < cache.entries[1].timestamp
    /\ cache.entries[1].timestamp = now
    /\ cache.entries[1].route = last.route
    /\ \E ip \in CacheAddrs :
           lookup_route_optimized(nodes, Root, ip) = NoRoute

\* C20: between completed operations every node of the trie, the root
\* included, has a route record attached exactly when its leaf flag is set.
C20_RecordIffLeaf ==
    \A n \in DOMAIN nodes :
        nodes[n].data # NoRoute <=> nodes[n].is_leaf # 0

\* C20 witness: a delete has just succeeded and the trie has the root as a
\* leaf with its record, an inner node that is no leaf and has no record,
\* and a leaf below it.
C20_Witness ==
    /\ last.op = "delete" /\ last.ret = 0
    /\ nodes[Root].is_leaf # 0
    /\ nodes[Root].data \in installed
    /\ \E n \in DOMAIN nodes \ {Root} :
           /\ nodes[n].is_leaf = 0
           /\ nodes[n].data = NoRoute
           /\ \E b \in {0, 1} :
                  /\ nodes[n].children[b] # NULL
                  /\ nodes[nodes[n].children[b]].is_leaf # 0

\* Heap h is a tree below the root: every node is reachable from the root,
\* the root is in no child slot and every other node in exactly one, and no
\* node lies more than AddrBits child steps below the root.
TreeShape(h) ==
    /\ DOMAIN h = ReachFrom(h, Root)
    /\ \A n \in DOMAIN h :
           Cardinality({s \in (DOMAIN h) \X {0, 1} :
                           h[s[1]].children[s[2]] = n})
               = IF n = Root THEN 0 ELSE 1
    /\ \A p \in PathsBelow(h, Root, 0, 0) : p[1] <= AddrBits

\* C21: the trie is a tree (every node reached from the root by exactly one
\* path of at most AddrBits child steps, no node in two child slots), and
\* every node's path spells leading bits of a prefix that was passed to
\* insert: a new trie has the root alone, an insert (successful or not)
\* adds only nodes on the path of the prefix it was given, and a delete
\* adds none.
C21_TreeShape ==
    Alive =>
        LET paths == PathsBelow(nodes, Root, 0, 0)
        IN  /\ TreeShape(nodes)
            /\ last.op \in {"init", "create_trie_node"} => paths = {}
            /\ \A route \in Routes, avail \in AvailChoices :
                   LET a == insert_route(nodes, Root, route, avail)
                   IN  a.heap = nodes
                       \/ /\ TreeShape(a.heap)
                          /\ PathsBelow(a.heap, Root, 0, 0) \subseteq
                                 paths \cup LivePaths({route})
            /\ \A prefix \in Addrs, prefix_len \in PrefixLens :
                   LET d == delete_route(nodes, Root, prefix, prefix_len)
                   IN  d.heap = nodes
                       \/ /\ TreeShape(d.heap)
                          /\ PathsBelow(d.heap, Root, 0, 0) \subseteq paths

\* C21 witness: an insert has just failed for want of memory, and the trie
\* holds a route and, off every live route's path, a node the failed
\* insert created.
C21_Witness ==
    /\ Alive
    /\ last.op = "insert" /\ last.ret = -1
    /\ installed # {}
    /\ PathsBelow(nodes, Root, 0, 0) \ LivePaths(installed) # {}

\* C22: against the caller's map from (masked prefix, length) to record,
\* as long as every installed length is at least 1, lookup of every address
\* returns the map's longest-prefix match and a delete of a key of length
\* at least 1 succeeds exactly when the key is in the map.
C22_RefinesMap ==
    (\A r \in installed : r.prefix_len >= 1) =>
        /\ \A ip \in Addrs :
               lookup_route_optimized(nodes, Root, ip)
                   = LongestMatch(installed, ip)
        /\ \A prefix \in Addrs, prefix_len \in PrefixLens \ {0} :
               (delete_route(nodes, Root, prefix, prefix_len).ret = 0)
                   <=> (\E r \in installed : SameKey(r, prefix, prefix_len))

\* C22 witness: a delete has just succeeded and the map, lengths all at
\* least 1, still holds a route of length 2 or more, the routes above it
\* gone.
C22_Witness ==
    /\ last.op = "delete" /\ last.ret = 0
    /\ \A r \in installed : r.prefix_len >= 2
    /\ installed # {}

\* C23: insert and delete never modify the lookup cache: after a step in
\* which insert_route or delete_route ran, the cache (its entries and its
\* size) is what it was before the step.
C23_CacheFrame ==
    [][last'.op \in {"insert", "delete"} => cache' = cache]_vars

\* C23 witness: a delete has just removed a route while the cache holds an
\* entry that refers to the removed record.
C23_Witness ==
    /\ last.op = "delete" /\ last.ret = 0
    /\ cache.size > 0
    /\ \E k \in 1..cache.size :
           /\ cache.entries[k].route # NoRoute
           /\ cache.entries[k].route \notin installed

\* C24: a successful insert removes no node, changes the leaf flag and the
\* record of no node but the terminal node of the inserted prefix (the
\* nodes it creates on the way are non-leaf and hold no record), and leaves
\* lookup as it was for every address that does not have the inserted
\* prefix as a bit-prefix.
C24_InsertFrame ==
    LET before == LookupTable(nodes)
    IN  \A route \in Routes, avail \in AvailChoices :
            LET a == insert_route(nodes, Root, route, avail)
                terminal == NodeAt(a.heap, route.prefix, route.prefix_len)
            IN  a.ret = 0 =>
                    /\ DOMAIN nodes \subseteq DOMAIN a.heap
                    /\ \A n \in DOMAIN a.heap \ {terminal} :
                           IF n \in DOMAIN nodes
                           THEN /\ a.heap[n].is_leaf = nodes[n].is_leaf
                                /\ a.heap[n].data = nodes[n].data
                           ELSE /\ a.heap[n].is_leaf = 0
                                /\ a.heap[n].data = NoRoute
                    /\ \A ip \in Addrs :
                           ~Matches(route, ip) =>
                               lookup_route_optimized(a.heap, Root, ip)
                                   = before[ip]

\* C24 witness: an insert has just succeeded in a trie that holds a route
\* and a longer one under it, so the insert passed or stopped at a leaf.
C24_Witness ==
    /\ last.op = "insert" /\ last.ret = 0
    /\ \E r, q \in installed :
           r.prefix_len < q.prefix_len /\ Matches(r, q.prefix)
    /\ Cardinality(DOMAIN nodes) = MaxNodes

\* C25: only the high prefix_len bits of a prefix are significant.  For
\* prefixes P1 and P2 that agree on their first L bits, after a successful
\* insert of a record with (P1, L): delete of (P2, L) succeeds, and an
\* insert of a second record with (P2, L) leaves that record at the node
\* where the first one was, the first one gone and no node added.
C25_HighBitsOnly ==
    \A L \in PrefixLens, P1 \in Addrs, P2 \in Addrs :
        P1 \div (2^(AddrBits - L)) = P2 \div (2^(AddrBits - L)) =>
            LET r1 == [next_hop |-> 1, prefix |-> P1, prefix_len |-> L]
                r2 == [next_hop |-> 2, prefix |-> P2, prefix_len |-> L]
                a  == insert_route(nodes, Root, r1, AddrBits)
                b  == insert_route(a.heap, Root, r2, AddrBits)
                n  == NodeAt(a.heap, P1, L)
            IN  a.ret = 0 =>
                    /\ delete_route(a.heap, Root, P2, L).ret = 0
                    /\ a.heap[n].data = r1
                    /\ b.ret = 0
                    /\ DOMAIN b.heap = DOMAIN a.heap
                    /\ NodeAt(b.heap, P2, L) = n
                    /\ b.heap[n].data = r2
                    /\ \A m \in DOMAIN b.heap : b.heap[m].data # r1

\* C25 witness: an insert has just succeeded and a record whose prefix has
\* host bits set sits at the node spelled by its leading prefix_len bits.
C25_Witness ==
    /\ last.op = "insert" /\ last.ret = 0
    /\ \E r \in installed :
           /\ r.prefix_len >= 1
           /\ HostBits(r.prefix, r.prefix_len) # 0
           /\ NodeAt(nodes, r.prefix, r.prefix_len) # NULL
           /\ nodes[NodeAt(nodes, r.prefix, r.prefix_len)].data = r

\* C26: after a successful insert at time t, the record lookup returns for
\* the inserted prefix has last_update equal to t.
C26_LastUpdate ==
    (last.op = "insert" /\ last.ret = 0) =>
        \A ip \in Addrs :
            LET r == lookup_route_optimized(nodes, Root, ip)
            IN  SameKey(r, last.route.prefix, last.route.prefix_len) =>
                    r.last_update = last.t

\* C27: every record referenced from the trie is referenced by exactly one
\* node, and that node is the one reached from the root along the first
\* prefix_len bits of the record's prefix.
C27_OneNodePerRecord ==
    \A n \in DOMAIN nodes :
        nodes[n].data # NoRoute =>
            /\ NodeAt(nodes, nodes[n].data.prefix, nodes[n].data.prefix_len)
                   = n
            /\ \A m \in DOMAIN nodes \ {n} : nodes[m].data # nodes[n].data

\* C27 witness: an insert has just succeeded, two nodes hold a record, and
\* one of the records has host bits set in its prefix.
C27_Witness ==
    /\ last.op = "insert" /\ last.ret = 0
    /\ Cardinality({n \in DOMAIN nodes : nodes[n].data # NoRoute}) >= 2
    /\ \E n \in DOMAIN nodes :
           /\ nodes[n].data # NoRoute
           /\ HostBits(nodes[n].data.prefix, nodes[n].data.prefix_len) # 0

\* No child slot of heap h refers to a node that is not allocated.
NoDangling(h) ==
    \A n \in DOMAIN h, b \in {0, 1} :
        h[n].children[b] \in DOMAIN h \cup {NULL}

\* C30: single-threaded deletes leave no dangling child pointer.  In every
\* state between operations each non-empty child slot refers to an
\* allocated node; and for every delete, successful or failed: the same
\* holds afterwards, a failed delete frees nothing, every node freed was
\* below the root, non-leaf once the terminal's flag was cleared and
\* without children other than nodes freed before it, and the nodes the
\* clean-up loop visits are pairwise distinct, so none is freed twice.
C30_NoDanglingChild ==
    Alive =>
        /\ NoDangling(nodes)
        /\ \A prefix \in Addrs, prefix_len \in PrefixLens :
               LET d == delete_route(nodes, Root, prefix, prefix_len)
                   walk == DeleteWalk(nodes, Root,
                                      ip_to_binary(prefix, prefix_len), 0,
                                      prefix_len, <<>>)
                   target(k) ==
                       nodes[walk.path[k][1]].children[walk.path[k][2]]
                   freed == DOMAIN nodes \ DOMAIN d.heap
               IN  /\ NoDangling(d.heap)
                   /\ DOMAIN d.heap \subseteq DOMAIN nodes
                   /\ d.ret # 0 => d.heap = nodes
                   /\ \A f \in freed :
                          /\ f # Root
                          /\ nodes[f].is_leaf = 0 \/ f = walk.current
                          /\ \A b \in {0, 1} :
                                 nodes[f].children[b] \in freed \cup {NULL}
                   /\ \A j \in 1..Len(walk.path), k \in 1..Len(walk.path) :
                          j # k => target(j) # target(k)

\* C30 witness: a delete has just succeeded and the heap has a hole: a
\* node allocated after the one the delete freed is still in the trie.
C30_Witness ==
    /\ Alive
    /\ last.op = "delete" /\ last.ret = 0
    /\ \E n \in DOMAIN nodes : \E m \in 1..n : m \notin DOMAIN nodes

\* The program counters of a writer inside delete_route.
DeletePcs ==
    {"D106", "D113", "D117", "D121", "D122", "D125", "D128", "D129",
     "return"}

\* C28: a lookup interleaved statement by statement with a single delete
\* returns what lookup returns before the delete or what it returns after
\* it: the longest match among the routes installed before, or among those
\* left once the delete's key is removed.  (With a shorter covering route
\* installed throughout, neither is none.)
C28_LookupDuringDelete ==
    \A r \in RaceReaders :
        (readers[r].pc = "L94" /\ writer.pc \in DeletePcs) =>
            readers[r].best_match \in
                {LongestMatch(installed, readers[r].ip),
                 LongestMatch(AfterDelete(installed, writer.route.prefix,
                                          writer.route.prefix_len, 0),
                              readers[r].ip)}

\* C29: with two get-or-resolve calls interleaved statement by statement,
\* the cache's size never exceeds its capacity and no entry is written at
\* an index at or above the capacity (no store lands behind the array and
\* no call faults on one).
C29_CacheBoundedUnderRace ==
    /\ cache.size <= cache.capacity
    /\ DOMAIN cache.entries \subseteq 0..(cache.capacity - 1)
    /\ \A r \in ReaderIds : readers[r].pc # "fault"

RECURSIVE ShapeFrom(_, _, _, _)
\* Node n, which is k child steps below the root along bits, and the nodes
\* below it, each as <<length, bits, leaf flag, record>>: the trie without
\* the addresses malloc happened to give its nodes.
ShapeFrom(h, n, k, bits) ==
    {<<k, bits, h[n].is_leaf, h[n].data>>}
        \cup UNION {IF h[n].children[b] = NULL
                    THEN {}
                    ELSE ShapeFrom(h, h[n].children[b], k + 1, 2 * bits + b) :
                    b \in {0, 1}}

\* The (masked prefix, length) of r1 comes before that of r2, shorter
\* lengths first: of two records with different keys one comes before the
\* other.
KeyBefore(r1, r2) ==
    \/ r1.prefix_len < r2.prefix_len
    \/ /\ r1.prefix_len = r2.prefix_len
       /\ r1.prefix \div (2^(AddrBits - r1.prefix_len))
              < r2.prefix \div (2^(AddrBits - r2.prefix_len))

\* C31: inserts of distinct keys commute.  From every reachable trie and for
\* two records with different (masked prefix, length): both inserts succeed
\* in one order exactly when they do in the other, and then the two orders
\* leave the same nodes (by bit-path), the same leaf flags and records, and
\* the same lookup result for every address.
C31_InsertsCommute ==
    \A r1 \in Routes, r2 \in Routes :
        KeyBefore(r1, r2) =>
            LET a1  == insert_route(nodes, Root, r1, AddrBits)
                a12 == insert_route(a1.heap, Root, r2, AddrBits)
                b2  == insert_route(nodes, Root, r2, AddrBits)
                b21 == insert_route(b2.heap, Root, r1, AddrBits)
            IN  /\ (a1.ret = 0 /\ a12.ret = 0) <=> (b2.ret = 0 /\ b21.ret = 0)
                /\ (a1.ret = 0 /\ a12.ret = 0) =>
                       /\ ShapeFrom(a12.heap, Root, 0, 0)
                              = ShapeFrom(b21.heap, Root, 0, 0)
                       /\ LookupTable(a12.heap) = LookupTable(b21.heap)

\* C31 witness: an insert has just succeeded and two installed routes lie
\* side by side, neither covering the other.
C31_Witness ==
    /\ last.op = "insert" /\ last.ret = 0
    /\ \E r, q \in installed :
           ~Matches(r, q.prefix) /\ ~Matches(q, r.prefix)

\* The route records a teardown of heap h releases, in the order of the
\* calls of free().
Released(h) ==
    free_trie_node(h, Root, NothingReleased).log.records

\* Sequence s has no element twice.
NoRepeat(s) ==
    \A i \in 1..Len(s), j \in 1..Len(s) : i # j => s[i] # s[j]

\* C32: records are released in teardown only, and only those still
\* attached.  A teardown of the trie releases exactly the records the caller
\* has installed, each once; after a successful delete a teardown releases
\* what it would have released before, less the deleted record; after an
\* insert that overwrites a record a teardown releases the new record in
\* place of the old one.
C32_ReleaseInTeardownOnly ==
    Alive =>
        LET now_released == Released(nodes)
            set_of(s) == {s[i] : i \in 1..Len(s)}
        IN  /\ NoRepeat(now_released)
            /\ set_of(now_released) = installed
            /\ \A prefix \in Addrs, prefix_len \in PrefixLens :
                   LET d == delete_route(nodes, Root, prefix, prefix_len)
                       gone == nodes[NodeAt(nodes, prefix, prefix_len)].data
                       after == Released(d.heap)
                   IN  d.ret = 0 =>
                           /\ NoRepeat(after)
                           /\ gone \notin set_of(after)
                           /\ set_of(after) = set_of(now_released) \ {gone}
            /\ \A route \in Routes :
                   LET a == insert_route(nodes, Root, route, AddrBits)
                       old == nodes[NodeAt(nodes, route.prefix,
                                           route.prefix_len)].data
                       after == Released(a.heap)
                   IN  (/\ a.ret = 0
                        /\ NodeAt(nodes, route.prefix, route.prefix_len)
                               # NULL
                        /\ old # NoRoute
                        /\ old # route) =>
                           /\ NoRepeat(after)
                           /\ old \notin set_of(after)
                           /\ set_of(after) =
                                  (set_of(now_released) \ {old}) \cup {route}

\* C32 witness: a teardown has just released a trie with two nodes below
\* the root and a single record: one of the nodes held none.
C32_Witness ==
    /\ last.op = "free_trie_node"
    /\ last.node = Root
    /\ Len(last.released.nodes) = 3
    /\ Len(last.released.records) = 1

\* C33: delete never destroys the root.  After a delete the root exists;
\* and from every live trie, for every delete: the root exists afterwards;
\* a delete of length 0 succeeds exactly when a length-0 route is installed
\* and then frees no node and changes no child slot; and after a successful
\* delete, the last route's included, lookups on the root run and return
\* what the remaining routes give (none when nothing is left below the
\* root), and an insert of the deleted prefix that succeeds puts its
\* record at the node of that prefix, rebuilt from the root.
C33_RootSurvivesDelete ==
    /\ last.op = "delete" => Alive
    /\ Alive =>
           \A prefix \in Addrs, prefix_len \in PrefixLens :
               LET d == delete_route(nodes, Root, prefix, prefix_len)
                   left == AfterDelete(installed, prefix, prefix_len, d.ret)
               IN  /\ Root \in DOMAIN d.heap
                   /\ prefix_len = 0 =>
                          /\ (d.ret = 0) <=>
                                 (\E r \in installed : r.prefix_len = 0)
                          /\ DOMAIN d.heap = DOMAIN nodes
                          /\ \A n \in DOMAIN nodes :
                                 d.heap[n].children = nodes[n].children
                   /\ d.ret = 0 =>
                          /\ \A ip \in Addrs :
                                 lookup_route_optimized(d.heap, Root, ip)
                                     = LongestMatch(
                                           {r \in left : r.prefix_len >= 1},
                                           ip)
                          /\ \A route \in Routes :
                                 LET a == insert_route(d.heap, Root, route,
                                                       AddrBits)
                                     n == NodeAt(a.heap, route.prefix,
                                                 route.prefix_len)
                                 IN  (/\ SameKey(route, prefix, prefix_len)
                                      /\ a.ret = 0) =>
                                         /\ Root \in DOMAIN a.heap
                                         /\ n # NULL
                                         /\ a.heap[n].data = route
                                         /\ a.heap[n].is_leaf = 1

\* C33 witness: a delete has just removed the last live route, and the root
\* is all that is left of the trie.
C33_Witness ==
    /\ last.op = "delete" /\ last.ret = 0
    /\ installed = {}
    /\ DOMAIN nodes = {Root}

\* C34: the clock never runs backwards, so no entry is stamped later than
\* now, and a lookup_with_cache called with a cache_ttl of 0 or less is never
\* served from the cache: it calls the trie lookup once, returns its
\* result, and appends an entry when that is a route and the cache is not
\* full.
C34_NoHitWithoutTtl ==
    /\ \A i \in 0..(cache.size - 1) : cache.entries[i].timestamp <= now
    /\ \A ip \in CacheAddrs, cache_ttl \in {-1, 0} :
           LET r == lookup_with_cache(nodes, Root, cache, ip, cache_ttl, now)
               route == lookup_route_optimized(nodes, Root, ip)
           IN  /\ r.consulted
               /\ r.lookups = 1
               /\ r.route = route
               /\ r.cache.size =
                      IF route # NoRoute /\ cache.size < cache.capacity
                      THEN cache.size + 1
                      ELSE cache.size

\* C34 witness: a cached lookup has just gone to the trie although the
\* cache holds an entry for the same address stamped at this very clock
\* reading; it has appended a second one.
C34_Witness ==
    /\ last.op = "lookup_with_cache"
    /\ last.consulted
    /\ cache.size = 2
    /\ cache.entries[0].ip = cache.entries[1].ip
    /\ cache.entries[0].timestamp = now
    /\ cache.entries[1].timestamp = now

\* The least member of a non-empty set of integers.
Least(S) ==
    CHOOSE i \in S : \A j \in S : i <= j

\* C35: cache entries are append-only.  No step removes an entry or changes
\* the address, route or timestamp of an existing one, so the size never
\* goes down (and the capacity stays); and for every call of
\* lookup_with_cache: a hit returns the route of the lowest-index entry
\* that matches the address and is unexpired under the call's ttl and
\* leaves the cache alone, and a miss on an address that has expired
\* entries only, with a route found and room left, appends a second entry
\* for the address at index size.
C35_AppendOnly ==
    [][/\ cache'.size >= cache.size
       /\ cache'.capacity = cache.capacity
       /\ \A i \in 0..(cache.size - 1) : cache'.entries[i] = cache.entries[i]
       /\ \A ip \in CacheAddrs, cache_ttl \in Ttls :
              LET r == lookup_with_cache(nodes, Root, cache, ip, cache_ttl,
                                         now)
                  fresh == FreshEntries(cache, ip, cache_ttl, now)
                  stale == {i \in 0..(cache.size - 1) :
                                cache.entries[i].ip = ip}
              IN  IF fresh # {}
                  THEN /\ r.route = cache.entries[Least(fresh)].route
                       /\ r.cache = cache
                  ELSE (/\ stale # {}
                        /\ r.route # NoRoute
                        /\ cache.size < cache.capacity) =>
                           /\ r.cache.size = cache.size + 1
                           /\ r.cache.entries[cache.size].ip = ip
                           /\ \A i \in stale :
                                  r.cache.entries[i] = cache.entries[i]
      ]_vars

\* C35 witness: the cache holds two entries for one address with different
\* routes, both unexpired under a ttl of 2, and a cached lookup has just
\* been served the route of the first.
C35_Witness ==
    /\ last.op = "lookup_with_cache"
    /\ ~last.consulted
    /\ cache.size = 2
    /\ cache.entries[0].ip = cache.entries[1].ip
    /\ cache.entries[0].route # cache.entries[1].route
    /\ FreshEntries(cache, cache.entries[0].ip, 2, now) = {0, 1}
    /\ last.route = cache.entries[0].route

\* What cell j of a buffer holds after the stores st: the char of the last
\* store to it, "uninit" when there was none.
CellAfter(st, j) ==
    LET ks == {k \in 1..Len(st) : st[k][1] = j}
    IN  IF ks = {}
        THEN "uninit"
        ELSE st[CHOOSE k \in ks : \A m \in ks : m <= k][2]

\* C36: for every prefix_len from 0 to AddrBits, ip_to_binary stores only
\* into cells 0..AddrBits of the bit buffer, the buffer insert_route and
\* delete_route then read is what those stores leave, its first prefix_len
\* cells (the ones the loops read) being '0' or '1'; and delete_route
\* records at most AddrBits path slots, cells 0..AddrBits-1 of path.
C36_BuffersInRange ==
    /\ \A ip \in Addrs, prefix_len \in PrefixLens :
           LET st == BinaryStores(ip, prefix_len)
               binary == ip_to_binary(ip, prefix_len)
           IN  /\ \A k \in 1..Len(st) : st[k][1] \in 0..(BinaryCells - 1)
               /\ DOMAIN binary = 1..BinaryCells
               /\ \A j \in 0..(BinaryCells - 1) :
                      binary[j + 1] = CellAfter(st, j)
               /\ \A i \in 0..(prefix_len - 1) :
                      binary[i + 1] \in {"0", "1"}
    /\ \A prefix \in Addrs, prefix_len \in PrefixLens :
           LET walk == DeleteWalk(nodes, Root,
                                  ip_to_binary(prefix, prefix_len), 0,
                                  prefix_len, <<>>)
           IN  Len(walk.path) <= PathCells

\* C36 witness: an insert has just succeeded, routes of both boundary
\* lengths, 0 and AddrBits, are installed, and a delete of the longest one
\* would fill every cell of path.
C36_Witness ==
    /\ last.op = "insert" /\ last.ret = 0
    /\ \E q \in installed : q.prefix_len = 0
    /\ \E r \in installed :
           /\ r.prefix_len = AddrBits
           /\ Len(DeleteWalk(nodes, Root,
                             ip_to_binary(r.prefix, r.prefix_len), 0,
                             r.prefix_len, <<>>).path) = PathCells

=============================================================================
